---- MODULE Spec2Model ----
(***************************************************************************)
(* Decision-and-learning core of the auto-investing bot:                   *)
(*   - DecisionLearningStore  (learning/decision_learning.py)              *)
(*   - LongTermMemoryStore    (learning/ai_interpreter.py)                 *)
(*   - order construction     (app/engine.py, AutoTrader._build_orders)    *)
(*                                                                         *)
(* Python floats are modelled as exact rationals [n, d] (d > 0, lowest     *)
(* terms); a JSON value that is not a number is NotNum.  Python dicts are  *)
(* TLA+ functions; a JSON object read from a state file is a sequence of   *)
(* <<key, value>> pairs in file order, so that key normalisation on load   *)
(* (upper-casing, stripping, last-wins on collisions) is computed.         *)
(***************************************************************************)
EXTENDS Integers, Sequences, FiniteSets, TLC

VARIABLES component, now, dl, mem, ob, fn, cc, boot, cy

vars == <<component, now, dl, mem, ob, fn, cc, boot, cy>>

\* The parts of the state that belong to the pure functions, the control
\* center, the first-run bootstrap and the signal collection.
others == <<fn, cc, boot, cy>>

(***************************************************************************)
(* Exact rational arithmetic for float-valued quantities.                  *)
(***************************************************************************)
RECURSIVE Gcd(_, _)
Gcd(a, b) == IF b = 0 THEN a ELSE Gcd(b, a % b)

Abs(x) == IF x < 0 THEN -x ELSE x

R(n, d) ==
    LET s == IF d < 0 THEN -1 ELSE 1
        g == Gcd(Abs(n), Abs(d))
    IN  [n |-> (s * n) \div g, d |-> (s * d) \div g]

Zero == [n |-> 0, d |-> 1]
One == [n |-> 1, d |-> 1]
NotNum == [n |-> 0, d |-> 0]

IsNum(x) == x.d > 0
RInt(i) == [n |-> i, d |-> 1]
RAdd(x, y) ==
    LET g == Gcd(x.d, y.d)
    IN  R(x.n * (y.d \div g) + y.n * (x.d \div g), (x.d \div g) * y.d)
RNeg(x) == [n |-> -x.n, d |-> x.d]
RSub(x, y) == RAdd(x, RNeg(y))
RMul(x, y) == R(x.n * y.n, x.d * y.d)
RDiv(x, y) == R(x.n * y.d, x.d * y.n)
RLt(x, y) == x.n * y.d < y.n * x.d
RLe(x, y) == x.n * y.d <= y.n * x.d
RMax(x, y) == IF RLt(x, y) THEN y ELSE x
RMin(x, y) == IF RLt(y, x) THEN y ELSE x
RAbs(x) == [n |-> Abs(x.n), d |-> x.d]
RFloor(x) == x.n \div x.d

\* _clamp(value, low, high) = max(low, min(high, value))
_clamp(value, low, high) == RMax(low, RMin(high, value))

(***************************************************************************)
(* Strings: str.upper(), str.strip(), str.lower() on the strings in use.   *)
(***************************************************************************)
Upper(s) ==
    CASE s = "nvda" -> "NVDA"
      [] s = "amd" -> "AMD"
      [] s = " amd " -> " AMD "
      [] s = "meta" -> "META"
      [] OTHER -> s

Strip(s) ==
    CASE s = " amd " -> "amd"
      [] s = " AMD " -> "AMD"
      [] s = " News " -> "News"
      [] s = " " -> ""
      [] OTHER -> s

Lower(s) ==
    CASE s = "News" -> "news"
      [] s = " News " -> " news "
      [] s = "SOCIAL" -> "social"
      [] s = "SET_CONFIG" -> "set_config"
      [] OTHER -> s

(***************************************************************************)
(* Dict helpers.  A Python dict is a function; d.get(k, default).          *)
(***************************************************************************)
EmptyDict == <<>>

Get(d, k, default) == IF k \in DOMAIN d THEN d[k] ELSE default

Put(d, k, v) == [x \in (DOMAIN d) \cup {k} |-> IF x = k THEN v ELSE d[x]]

Pop(d, k) == [x \in (DOMAIN d) \ {k} |-> d[x]]

\* A JSON value that may or may not be an object.
Dict(f) == [kind |-> "dict", val |-> f]
NotDict == [kind |-> "other", val |-> <<>>]
IsDict(j) == j.kind = "dict"

(***************************************************************************)
(* DecisionLearningStore                                                   *)
(***************************************************************************)
FEATURE_KEYS == <<"momentum_20d", "momentum_5d", "trend_20d", "news_score", "macro_score", "ai_short_term", "ai_long_term", "volatility_risk">>

DEFAULT_SOURCE_TYPES == <<"news", "sec_filing", "earnings_transcript", "social", "analyst_rating", "unknown">>

Range(seq) == {seq[i] : i \in 1..Len(seq)}

FeatureSet == Range(FEATURE_KEYS)

\* Ordered <<key, value>> pairs: dict[key] = value keeps a present key's place.
PairsHas(pairs, k) == \E i \in 1..Len(pairs) : pairs[i][1] = k

PairsGet(pairs, k, default) ==
    IF PairsHas(pairs, k)
    THEN pairs[CHOOSE i \in 1..Len(pairs) : pairs[i][1] = k /\ \A j \in (i + 1)..Len(pairs) : pairs[j][1] # k][2]
    ELSE default

PairsPut(pairs, k, v) ==
    IF PairsHas(pairs, k)
    THEN [i \in 1..Len(pairs) |-> IF pairs[i][1] = k THEN <<k, v>> ELSE pairs[i]]
    ELSE Append(pairs, <<k, v>>)

\* DecisionLearningStore.__init__, lines 116-126: the constructor's clamping
\* of its arguments.
StoreConfig(args) ==
    [ evaluation_horizon |-> IF args.evaluation_horizon_hours < 1 THEN 1 ELSE args.evaluation_horizon_hours,
      bad_call_return_threshold |-> args.bad_call_return_threshold,
      good_call_return_threshold |-> args.good_call_return_threshold,
      learning_rate |-> _clamp(args.learning_rate, Zero, One),
      max_feature_penalty |-> RMax(Zero, args.max_feature_penalty),
      enable_source_priority_learning |-> args.enable_source_priority_learning,
      source_learning_rate |-> _clamp(args.source_learning_rate, Zero, One),
      max_source_bias |-> RMax(Zero, args.max_source_bias),
      market_reaction_strength |-> _clamp(args.market_reaction_strength, Zero, One) ]

\* __init__, lines 128-131: the state before _load.
DefaultPenalties == [k \in FeatureSet |-> Zero]
DefaultSourceBias == [k \in Range(DEFAULT_SOURCE_TYPES) |-> Zero]

LoadPenaltiesUnclamped(cfg, j) ==
    IF ~IsDict(j) THEN DefaultPenalties
    ELSE [k \in FeatureSet |->
            LET value == PairsGet(j.val, k, NotNum)
            IN  IF IsNum(value) THEN value ELSE Zero]

\* _load, lines 147-152
LoadPenalties(cfg, j) ==
    IF ~IsDict(j) THEN DefaultPenalties
    ELSE [k \in FeatureSet |->
            LET value == PairsGet(j.val, k, NotNum)
            IN  IF IsNum(value) THEN _clamp(value, Zero, cfg.max_feature_penalty) ELSE Zero]

\* _load, lines 154-162
RECURSIVE LoadSourceBias(_, _, _, _)
LoadSourceBias(cfg, pairs, i, acc) ==
    IF i > Len(pairs) THEN acc
    ELSE LET value == pairs[i][2]
             clean == Lower(Strip(pairs[i][1]))
         IN  IF ~IsNum(value) \/ clean = ""
             THEN LoadSourceBias(cfg, pairs, i + 1, acc)
             ELSE LoadSourceBias(cfg, pairs, i + 1,
                      Put(acc, clean, _clamp(value, RNeg(cfg.max_source_bias), cfg.max_source_bias)))

\* _load, lines 164-180: open_calls and market_observations alike.
RECURSIVE LoadBySymbol(_, _, _)
LoadBySymbol(pairs, i, acc) ==
    IF i > Len(pairs) THEN acc
    ELSE IF ~IsDict(pairs[i][2])
         THEN LoadBySymbol(pairs, i + 1, acc)
         ELSE LoadBySymbol(pairs, i + 1, Put(acc, Upper(pairs[i][1]), pairs[i][2].val))

\* _load, lines 135-180.  file.valid is FALSE when the state file is absent,
\* is not JSON or is not a JSON object.
_load(cfg, file) ==
    IF ~file.valid
    THEN [ feature_penalties |-> DefaultPenalties, source_bias |-> DefaultSourceBias,
           open_calls |-> EmptyDict, market_observations |-> EmptyDict ]
    ELSE [ feature_penalties |-> LoadPenalties(cfg, file.feature_penalties),
           source_bias |-> IF IsDict(file.source_bias)
                           THEN LoadSourceBias(cfg, file.source_bias.val, 1, DefaultSourceBias)
                           ELSE DefaultSourceBias,
           open_calls |-> IF IsDict(file.open_calls)
                          THEN LoadBySymbol(file.open_calls.val, 1, EmptyDict)
                          ELSE EmptyDict,
           market_observations |-> IF IsDict(file.market_observations)
                                   THEN LoadBySymbol(file.market_observations.val, 1, EmptyDict)
                                   ELSE EmptyDict ]

\* json.dumps of a dict: its items in order (here FEATURE_KEYS / sorted order).
RECURSIVE DumpDict(_, _)
DumpDict(d, wrap) ==
    IF DOMAIN d = {} THEN <<>>
    ELSE LET k == CHOOSE x \in DOMAIN d : TRUE
         IN  <<<<k, IF wrap THEN Dict(d[k]) ELSE d[k]>>>> \o DumpDict(Pop(d, k), wrap)

SaveWithoutObservations(s) ==
    [s EXCEPT !.state_file =
        [ valid |-> TRUE,
          feature_penalties |-> Dict(DumpDict(s.feature_penalties, FALSE)),
          source_bias |-> Dict(DumpDict(s.source_bias, FALSE)),
          open_calls |-> Dict(DumpDict(s.open_calls, TRUE)),
          market_observations |-> Dict(<<>>) ]]

\* _save, lines 182-196
_save(s) ==
    [s EXCEPT !.state_file =
        [ valid |-> TRUE,
          feature_penalties |-> Dict(DumpDict(s.feature_penalties, FALSE)),
          source_bias |-> Dict(DumpDict(s.source_bias, FALSE)),
          open_calls |-> Dict(DumpDict(s.open_calls, TRUE)),
          market_observations |-> Dict(DumpDict(s.market_observations, TRUE)) ]]

\* _append_journal, lines 198-205
_append_journal(s, event) == [s EXCEPT !.journal = Append(s.journal, event)]

\* DecisionLearningStore(...): constructor arguments and the files on disk.
NewStore(args, state_file, journal, next_id) ==
    LET cfg == StoreConfig(args)
        loaded == _load(cfg, state_file)
    IN  [ args |-> args, cfg |-> cfg,
          feature_penalties |-> loaded.feature_penalties,
          source_bias |-> loaded.source_bias,
          open_calls |-> loaded.open_calls,
          market_observations |-> loaded.market_observations,
          state_file |-> state_file, journal |-> journal, next_id |-> next_id,
          result |-> [op |-> "init", symbol |-> "", returned |-> FALSE] ]

\* _normalize_source_profile, lines 232-260.  j is the raw argument (None or
\* a non-dict is NotDict); rows carry sentiment, count, multiplier, each a
\* number or NotNum (missing or not a number).
RECURSIVE NormalizeRows(_, _, _)
NormalizeRows(pairs, i, acc) ==
    IF i > Len(pairs) THEN acc
    ELSE LET raw_row == pairs[i][2]
             key == IF Lower(Strip(pairs[i][1])) = "" THEN "unknown" ELSE Lower(Strip(pairs[i][1]))
             sentiment == IF IsNum(raw_row.val.sentiment) THEN raw_row.val.sentiment ELSE Zero
             count == IF IsNum(raw_row.val.count) THEN raw_row.val.count ELSE Zero
             multiplier == IF IsNum(raw_row.val.multiplier) THEN raw_row.val.multiplier ELSE One
         IN  IF ~IsDict(raw_row) THEN NormalizeRows(pairs, i + 1, acc)
             ELSE IF RLe(count, Zero) THEN NormalizeRows(pairs, i + 1, acc)
             ELSE NormalizeRows(pairs, i + 1,
                      PairsPut(acc, key,
                          Dict([ sentiment |-> _clamp(sentiment, RInt(-1), One),
                                 count |-> RMax(Zero, count),
                                 multiplier |-> _clamp(multiplier, R(1, 10), RInt(3)) ])))

_normalize_source_profile(j) == IF ~IsDict(j) THEN <<>> ELSE NormalizeRows(j.val, 1, <<>>)

RECURSIVE SumCounts(_, _)
SumCounts(sp, i) ==
    IF i > Len(sp) THEN Zero
    ELSE RAdd(RMax(Zero, sp[i][2].val.count), SumCounts(sp, i + 1))

BiasDeltaUnsigned(cfg, channel_weight, realized_signal, sentiment, influence) ==
    RMul(RMul(RMul(RMul(cfg.source_learning_rate, channel_weight), realized_signal), RAbs(sentiment)), influence)

\* _update_source_bias, lines 289-295
BiasDelta(cfg, channel_weight, realized_signal, sentiment, influence) ==
    RMul(RMul(RMul(RMul(cfg.source_learning_rate, channel_weight), realized_signal), sentiment), influence)

\* _update_source_bias, lines 280-303: the loop over the profile's sources.
\* acc = [bias, changed].
RECURSIVE UpdateBiasLoop(_, _, _, _, _, _)
UpdateBiasLoop(cfg, sp, i, realized_signal, channel_weight, acc) ==
    IF i > Len(sp) THEN acc
    ELSE LET source_type == sp[i][1]
             row == sp[i][2].val
             sentiment == _clamp(row.sentiment, RInt(-1), One)
             count == RMax(Zero, row.count)
             count_share == RDiv(count, SumCounts(sp, 1))
             influence == RMul(RMin(One, RAbs(sentiment)), count_share)
             delta == BiasDelta(cfg, channel_weight, realized_signal, sentiment, influence)
             before == Get(acc.bias, source_type, Zero)
             after == _clamp(RAdd(before, delta), RNeg(cfg.max_source_bias), cfg.max_source_bias)
         IN  IF RLe(count, Zero) \/ sentiment = Zero
             THEN UpdateBiasLoop(cfg, sp, i + 1, realized_signal, channel_weight, acc)
             ELSE IF delta = Zero \/ after = before
             THEN UpdateBiasLoop(cfg, sp, i + 1, realized_signal, channel_weight, acc)
             ELSE UpdateBiasLoop(cfg, sp, i + 1, realized_signal, channel_weight,
                      [ bias |-> Put(acc.bias, source_type, after),
                        changed |-> Put(acc.changed, source_type, RSub(after, before)) ])

\* _update_source_bias, lines 262-305.  Returns [bias, changed].
_update_source_bias(cfg, source_bias, source_profile, realized_return, channel_weight) ==
    LET unchanged == [bias |-> source_bias, changed |-> EmptyDict]
        realized_signal == _clamp(RDiv(realized_return, R(5, 100)), RInt(-2), RInt(2))
    IN  IF ~cfg.enable_source_priority_learning \/ Len(source_profile) = 0 THEN unchanged
        ELSE IF realized_signal = Zero THEN unchanged
        ELSE IF RLe(SumCounts(source_profile, 1), Zero) THEN unchanged
        ELSE UpdateBiasLoop(cfg, source_profile, 1, realized_signal, channel_weight, unchanged)

PenaltyStepSwapped(cfg, magnitude, exposure, outcome) ==
    IF outcome = "bad_call" THEN RNeg(RMul(RMul(RMul(R(1, 2), cfg.learning_rate), magnitude), exposure))
    ELSE IF outcome = "good_call" THEN RMul(RMul(cfg.learning_rate, magnitude), exposure)
    ELSE Zero

\* _update_penalties, lines 510-521: what is added to the penalty before the
\* clamp: rate x magnitude x exposure for a bad call, minus half of it for a
\* good call.
PenaltyStep(cfg, magnitude, exposure, outcome) ==
    IF outcome = "bad_call" THEN RMul(RMul(cfg.learning_rate, magnitude), exposure)
    ELSE IF outcome = "good_call" THEN RNeg(RMul(RMul(RMul(R(1, 2), cfg.learning_rate), magnitude), exposure))
    ELSE Zero

\* _update_penalties, line 498
Magnitude(realized_return) == RMin(RDiv(RAbs(realized_return), R(5, 100)), RInt(2))

\* _update_penalties, lines 501-503
Exposure(feature_profile, key) ==
    LET raw_value == Get(feature_profile, key, NotNum)
        value == IF IsNum(raw_value) THEN raw_value ELSE Zero
    IN  RMax(Zero, value)

\* _update_penalties, lines 500-525: the penalty of one feature key after the
\* update.  feature_profile is a dict (a function) of numbers or NotNum.
PenaltyAfter(cfg, before, feature_profile, key, realized_return, outcome) ==
    LET magnitude == Magnitude(realized_return)
        exposure == Exposure(feature_profile, key)
    IN  IF exposure = Zero THEN before
        ELSE IF outcome \in {"bad_call", "good_call"}
        THEN _clamp(RAdd(before, PenaltyStep(cfg, magnitude, exposure, outcome)), Zero, cfg.max_feature_penalty)
        ELSE before

\* _update_penalties, lines 491-527.  Returns the new feature_penalties.
_update_penalties(cfg, feature_penalties, feature_profile, realized_return, outcome) ==
    [key \in DOMAIN feature_penalties |->
        IF key \in FeatureSet
        THEN PenaltyAfter(cfg, Get(feature_penalties, key, Zero), feature_profile, key, realized_return, outcome)
        ELSE feature_penalties[key]]

\* adjustment_for, lines 207-216
RECURSIVE AdjustmentSum(_, _, _)
AdjustmentSum(feature_penalties, feature_profile, keys) ==
    IF keys = {} THEN Zero
    ELSE LET key == CHOOSE k \in keys : TRUE
             raw == Get(feature_profile, key, Zero)
             exposure == RMax(Zero, raw)
         IN  RSub(AdjustmentSum(feature_penalties, feature_profile, keys \ {key}),
                  RMul(feature_penalties[key], exposure))

adjustment_for(s, feature_profile) ==
    AdjustmentSum(s.feature_penalties, feature_profile, DOMAIN s.feature_penalties)

\* source_multiplier_for, lines 218-222
source_multiplier_for(s, source_type) ==
    LET key == IF Lower(Strip(source_type)) = "" THEN "unknown" ELSE Lower(Strip(source_type))
        bias == Get(s.source_bias, key, Zero)
    IN  _clamp(RAdd(One, bias), R(1, 4), RInt(2))

\* call_rationale, line 69: list.sort(reverse=True) is stable, so an item goes
\* behind every item with a contribution at least as large.
InsertRanked(ranked, item) ==
    LET pos == Cardinality({i \in 1..Len(ranked) : RLe(item.contribution, ranked[i].contribution)})
    IN  SubSeq(ranked, 1, pos) \o <<item>> \o SubSeq(ranked, pos + 1, Len(ranked))

\* call_rationale, lines 61-67: the items in the profile's order.
RECURSIVE RankedDrivers(_, _)
RankedDrivers(feature_profile, i) ==
    IF i = 0 THEN <<>>
    ELSE LET key == FEATURE_KEYS[i]
             rest == RankedDrivers(feature_profile, i - 1)
         IN  IF key \notin DOMAIN feature_profile \/ key = "volatility_risk" THEN rest
             ELSE IF RLe(feature_profile[key], Zero) THEN rest
             ELSE InsertRanked(rest, [driver |-> key, contribution |-> feature_profile[key]])

\* call_rationale, lines 60-70
call_rationale(feature_profile, max_items) ==
    LET ranked == RankedDrivers(feature_profile, Len(FEATURE_KEYS))
    IN  SubSeq(ranked, 1, IF Len(ranked) < max_items THEN Len(ranked) ELSE max_items)

\* failure_tags, lines 73-97
failure_tags(feature_profile, realized_return) ==
    LET top == call_rationale(feature_profile, 2)
        drivers == {top[i].driver : i \in 1..Len(top)}
        volatility == Get(feature_profile, "volatility_risk", Zero)
        tags == (IF "news_score" \in drivers THEN <<"news_overreaction">> ELSE <<>>)
                \o (IF "momentum_20d" \in drivers \/ "momentum_5d" \in drivers THEN <<"momentum_reversal">> ELSE <<>>)
                \o (IF "ai_short_term" \in drivers \/ "ai_long_term" \in drivers THEN <<"ai_thesis_miss">> ELSE <<>>)
                \o (IF "macro_score" \in drivers THEN <<"macro_policy_miss">> ELSE <<>>)
                \o (IF RLt(R(9, 100), volatility) THEN <<"high_volatility_regime">> ELSE <<>>)
    IN  IF RLe(Zero, realized_return) THEN <<>>
        ELSE IF tags = <<>> THEN <<"general_prediction_error">>
        ELSE tags

NoTime == -1

NoEvent == [event |-> "none"]

Returned(s, op, symbol, event) == [s EXCEPT !.result = [op |-> op, symbol |-> symbol, returned |-> event.event # "none"]]

\* maybe_record_call, lines 374-376: existing = self.open_calls.get(symbol).
ExistingCallIgnored(s, symbol) == FALSE

ExistingCall(s, symbol) == symbol \in DOMAIN s.open_calls

\* maybe_record_call, lines 361-409.  uuid4() is a fresh id (next_id).
maybe_record_call(s, signal, feature_profile, source_profile, entry_threshold, option_threshold, t) ==
    LET symbol == Upper(signal.symbol)
        reason == call_rationale(feature_profile, 3)
        normalized_source_profile == _normalize_source_profile(source_profile)
        call == [ id |-> s.next_id,
                  symbol |-> symbol,
                  created_at |-> t,
                  entry_price |-> signal.price,
                  signal_score |-> signal.score,
                  feature_profile |-> Dict(feature_profile),
                  source_profile |-> Dict(normalized_source_profile),
                  rationale |-> reason,
                  kind |-> IF RLe(option_threshold, signal.score) THEN "options_focus" ELSE "equity_focus" ]
        event == [ event |-> "decision_call_opened", symbol |-> symbol, call_id |-> call.id,
                   outcome |-> "", realized_return |-> Zero,
                   feature_profile |-> feature_profile,
                   penalty_update |-> EmptyDict, source_update |-> EmptyDict ]
    IN  IF RLt(signal.score, RMin(entry_threshold, option_threshold))
        THEN Returned(s, "maybe_record_call", signal.symbol, NoEvent)
        ELSE IF ExistingCall(s, symbol)
        THEN Returned(s, "maybe_record_call", signal.symbol, NoEvent)
        ELSE Returned(
                 _append_journal(
                     _save([s EXCEPT !.open_calls = Put(s.open_calls, symbol, call),
                                     !.next_id = s.next_id + 1]),
                     event),
                 "maybe_record_call", signal.symbol, NoEvent)

OutcomeStrict(cfg, realized_return) ==
    IF RLt(realized_return, cfg.bad_call_return_threshold) THEN "bad_call"
    ELSE IF RLt(cfg.good_call_return_threshold, realized_return) THEN "good_call"
    ELSE "neutral"

\* maybe_resolve_call, lines 451-455
Outcome(cfg, realized_return) ==
    IF RLe(realized_return, cfg.bad_call_return_threshold) THEN "bad_call"
    ELSE IF RLe(cfg.good_call_return_threshold, realized_return) THEN "good_call"
    ELSE "neutral"

\* _update_penalties, lines 523-525: changed[key] = after - before.
Changed(before, after) ==
    [k \in {x \in DOMAIN after : after[x] # Get(before, x, Zero)} |-> RSub(after[k], Get(before, k, Zero))]

BeforeHorizonNever(cfg, created_at, t) == FALSE

\* maybe_resolve_call, line 436: now - created_at < self.evaluation_horizon.
BeforeHorizon(cfg, created_at, t) == t - created_at < cfg.evaluation_horizon

DiscardCallUnsaved(s, key) == [s EXCEPT !.open_calls = Pop(s.open_calls, key)]

\* maybe_resolve_call, lines 422-423, 431-432 and 441-442: pop and _save.
DiscardCall(s, key) == _save([s EXCEPT !.open_calls = Pop(s.open_calls, key)])

\* maybe_resolve_call, lines 411-489.  created_at = NoTime stands for a
\* created_at that is missing, not a string or not an ISO timestamp.
maybe_resolve_call(s, symbol, current_price, t) ==
    LET key == Upper(symbol)
        call == s.open_calls[key]
        discarded == DiscardCall(s, key)
        entry_price == call.entry_price
        realized_return == RSub(RDiv(current_price, entry_price), One)
        feature_profile == IF IsDict(call.feature_profile) THEN call.feature_profile.val ELSE EmptyDict
        source_profile == _normalize_source_profile(call.source_profile)
        outcome == Outcome(s.cfg, realized_return)
        penalties == _update_penalties(s.cfg, s.feature_penalties, feature_profile, realized_return, outcome)
        bias == _update_source_bias(s.cfg, s.source_bias, source_profile, realized_return, One)
        event == [ event |-> "decision_call_resolved", symbol |-> key, call_id |-> call.id,
                   outcome |-> outcome, realized_return |-> realized_return,
                   feature_profile |-> feature_profile,
                   why_bad |-> IF outcome = "bad_call" THEN failure_tags(feature_profile, realized_return) ELSE <<>>,
                   penalty_update |-> Changed(s.feature_penalties, penalties),
                   source_update |-> bias.changed ]
        updated == [s EXCEPT !.feature_penalties = penalties, !.source_bias = bias.bias]
        resolved == _save([_append_journal(updated, event) EXCEPT !.open_calls = Pop(s.open_calls, key)])
    IN  IF RLe(current_price, Zero) THEN Returned(s, "maybe_resolve_call", symbol, NoEvent)
        ELSE IF key \notin DOMAIN s.open_calls THEN Returned(s, "maybe_resolve_call", symbol, NoEvent)
        ELSE IF call.created_at = NoTime THEN Returned(discarded, "maybe_resolve_call", symbol, NoEvent)
        ELSE IF BeforeHorizon(s.cfg, call.created_at, t) THEN Returned(s, "maybe_resolve_call", symbol, NoEvent)
        ELSE IF ~IsNum(entry_price) \/ RLe(entry_price, Zero) THEN Returned(discarded, "maybe_resolve_call", symbol, NoEvent)
        ELSE Returned(resolved, "maybe_resolve_call", symbol, event)

CurrentProfile(prior, normalized_profile) == normalized_profile

\* update_from_market_reaction, lines 330-332: the profile of the prior
\* observation, not the one passed in.
PreviousProfile(prior, normalized_profile) == _normalize_source_profile(prior.source_profile)

\* update_from_market_reaction, lines 307-359
update_from_market_reaction(s, symbol, current_price, source_profile, t) ==
    LET key == Upper(Strip(symbol))
        normalized_profile == _normalize_source_profile(source_profile)
        has_prior == key \in DOMAIN s.market_observations
        prior == s.market_observations[key]
        prev_price == prior.price
        prev_profile == PreviousProfile(prior, normalized_profile)
        realized_return == RSub(RDiv(current_price, prev_price), One)
        learns == has_prior /\ IsNum(prev_price) /\ RLt(Zero, prev_price) /\ Len(prev_profile) > 0
        bias == IF learns
                THEN _update_source_bias(s.cfg, s.source_bias, prev_profile, realized_return, s.cfg.market_reaction_strength)
                ELSE [bias |-> s.source_bias, changed |-> EmptyDict]
        updates == learns /\ DOMAIN bias.changed # {}
        event == IF updates
                 THEN [ event |-> "source_market_reaction_updated", symbol |-> key, call_id |-> 0,
                        outcome |-> "", realized_return |-> realized_return,
                        feature_profile |-> EmptyDict,
                        penalty_update |-> EmptyDict, source_update |-> bias.changed ]
                 ELSE NoEvent
        learned == [s EXCEPT !.source_bias = bias.bias]
        journaled == IF updates THEN _append_journal(learned, event) ELSE learned
        observed == [journaled EXCEPT !.market_observations =
                        Put(s.market_observations, key,
                            [timestamp |-> t, price |-> current_price, source_profile |-> Dict(normalized_profile)])]
    IN  IF RLe(current_price, Zero) THEN Returned(s, "update_from_market_reaction", symbol, NoEvent)
        ELSE IF ~s.cfg.enable_source_priority_learning THEN Returned(s, "update_from_market_reaction", symbol, NoEvent)
        ELSE IF key = "" THEN Returned(s, "update_from_market_reaction", symbol, NoEvent)
        ELSE Returned(_save(observed), "update_from_market_reaction", symbol, event)

(***************************************************************************)
(* Inputs of the DecisionLearningStore model.                              *)
(***************************************************************************)
MaxTime == 1
MaxJournal == 2

\* Constructor arguments: those of the tests with a short horizon, ones out
\* of range, and ones that switch learning off.
ArgsTest ==
    [ evaluation_horizon_hours |-> 1,
      bad_call_return_threshold |-> R(-2, 100), good_call_return_threshold |-> R(2, 100),
      learning_rate |-> R(1, 2), max_feature_penalty |-> R(3, 4),
      enable_source_priority_learning |-> TRUE, source_learning_rate |-> R(1, 5),
      max_source_bias |-> R(4, 5), market_reaction_strength |-> R(1, 2) ]

ArgsWide ==
    [ evaluation_horizon_hours |-> 0,
      bad_call_return_threshold |-> Zero, good_call_return_threshold |-> R(10, 100),
      learning_rate |-> R(3, 2), max_feature_penalty |-> RInt(2),
      enable_source_priority_learning |-> TRUE, source_learning_rate |-> One,
      max_source_bias |-> R(1, 10), market_reaction_strength |-> RInt(2) ]

ArgsOff ==
    [ evaluation_horizon_hours |-> 1,
      bad_call_return_threshold |-> R(-2, 100), good_call_return_threshold |-> R(2, 100),
      learning_rate |-> Zero, max_feature_penalty |-> RInt(-1),
      enable_source_priority_learning |-> FALSE, source_learning_rate |-> R(1, 5),
      max_source_bias |-> R(4, 5), market_reaction_strength |-> R(1, 2) ]

StoreArgs == {ArgsTest, ArgsWide, ArgsOff}

\* config.py lines 162 and 167: min_signal_to_enter, option_signal_threshold.
EntryThreshold == R(12, 1000)
OptionThreshold == R(35, 1000)

Row(sentiment, count, multiplier) == Dict([sentiment |-> sentiment, count |-> count, multiplier |-> multiplier])

\* Raw source profiles as callers pass them (None is NotDict).
ProfileNewsSocial == Dict(<< <<"news", Row(R(4, 5), RInt(4), NotNum)>>, <<"social", Row(R(-2, 5), RInt(1), NotNum)>> >>)
ProfileRaw == Dict(<< <<" News ", Row(RInt(2), RInt(1), RInt(5))>>, <<"blog", Row(R(1, 2), Zero, One)>>, <<" ", Row(RInt(-1), RInt(1), NotNum)>>, <<"news", Row(R(1, 2), RInt(3), One)>>, <<"SOCIAL", NotDict>> >>)
SourceProfiles == {NotDict, ProfileNewsSocial}

FeatureProfileA == [k \in FeatureSet |->
    CASE k = "momentum_20d" -> R(1, 10)
      [] k = "momentum_5d" -> R(-1, 20)
      [] k = "news_score" -> R(1, 5)
      [] k = "volatility_risk" -> R(1, 10)
      [] OTHER -> Zero]
FeatureProfileB == [k \in {"news_score", "trend_20d", "ai_long_term", "macro_score"} |->
    CASE k = "news_score" -> R(1, 20)
      [] k = "trend_20d" -> R(1, 20)
      [] k = "ai_long_term" -> R(3, 100)
      [] OTHER -> R(-1, 10)]

Sig(symbol, price, score) == [symbol |-> symbol, price |-> price, score |-> score]

CallInputs ==
    { [signal |-> Sig("NVDA", RInt(100), R(18, 100)), feature_profile |-> FeatureProfileA, source_profile |-> ProfileNewsSocial],
      [signal |-> Sig("nvda", RInt(100), R(2, 100)), feature_profile |-> FeatureProfileB, source_profile |-> NotDict],
      [signal |-> Sig("AMD", RInt(50), R(1, 100)), feature_profile |-> FeatureProfileA, source_profile |-> NotDict],
      [signal |-> Sig("amd", RInt(100), R(5, 100)), feature_profile |-> FeatureProfileB, source_profile |-> ProfileRaw] }

ResolveSymbols == {"nvda", "AMD"}
ResolvePrices == {Zero, RInt(90), RInt(100), RInt(110)}
ReactionSymbols == {" amd ", " "}
ReactionPrices == {Zero, RInt(100), RInt(110)}

\* Open calls as a state file may hold them.
FileCall(id, symbol, created_at, entry_price, feature_profile, source_profile) ==
    Dict([ id |-> id, symbol |-> symbol, created_at |-> created_at, entry_price |-> entry_price,
           signal_score |-> R(5, 100), feature_profile |-> feature_profile,
           source_profile |-> source_profile, rationale |-> <<>>, kind |-> "equity_focus" ])

FileObservation(price, source_profile) == Dict([timestamp |-> 0, price |-> price, source_profile |-> source_profile])

NoFile == [ valid |-> FALSE, feature_penalties |-> NotDict, source_bias |-> NotDict,
            open_calls |-> NotDict, market_observations |-> NotDict ]

\* A hand-edited file: out-of-range and ill-typed values, keys in any case.
FileEdited ==
    [ valid |-> TRUE,
      feature_penalties |-> Dict(<< <<"momentum_20d", RInt(5)>>, <<"news_score", RInt(-1)>>, <<"trend_20d", NotNum>>, <<"bogus", One>>, <<"macro_score", R(1, 2)>> >>),
      source_bias |-> Dict(<< <<" News ", RInt(3)>>, <<"social", RInt(-3)>>, <<" ", One>>, <<"blog", R(1, 10)>>, <<"unknown", NotNum>> >>),
      open_calls |-> Dict(<< <<"nvda", FileCall(101, "nvda", NoTime, RInt(100), Dict(FeatureProfileA), NotDict)>>,
                             <<"AMD", NotDict>>,
                             <<"amd", FileCall(102, "AMD", 0, Zero, NotDict, ProfileRaw)>> >>),
      market_observations |-> Dict(<< <<"amd", FileObservation(RInt(100), ProfileRaw)>>,
                                      <<"AMD", NotDict>>,
                                      <<"nvda", FileObservation(NotNum, NotDict)>> >>) ]

\* A file with two entries for one symbol and sections that are no objects.
FileCollide ==
    [ valid |-> TRUE,
      feature_penalties |-> NotDict,
      source_bias |-> NotDict,
      open_calls |-> Dict(<< <<"nvda", FileCall(103, "NVDA", 0, RInt(100), Dict(FeatureProfileB), ProfileNewsSocial)>>,
                             <<"NVDA", FileCall(104, "NVDA", 0, RInt(100), Dict(FeatureProfileA), ProfileNewsSocial)>> >>),
      market_observations |-> NotDict ]

StateFiles == {NoFile, FileEdited, FileCollide}

\* The stores the model starts from: constructor arguments and state file.
Installations == {<<ArgsTest, NoFile>>, <<ArgsTest, FileEdited>>, <<ArgsWide, FileCollide>>, <<ArgsWide, FileEdited>>, <<ArgsOff, FileEdited>>}

(***************************************************************************)
(* LongTermMemoryStore (learning/ai_interpreter.py)                        *)
(***************************************************************************)
\* A row of self.state.  A key the row does not hold (last_prediction,
\* last_price) is NotNum; updated_at is a time or NoTime (null).
MemRow(score, updated_at, last_prediction, last_price) ==
    [score |-> score, updated_at |-> updated_at, last_prediction |-> last_prediction, last_price |-> last_price]

\* LongTermMemoryStore._load, lines 152-170: the loop over the payload.
RECURSIVE MemLoadRows(_, _, _)
MemLoadRows(pairs, i, acc) ==
    IF i > Len(pairs) THEN acc
    ELSE LET raw == pairs[i][2]
             score == raw.val.score
             last_prediction == raw.val.last_prediction
             last_price == raw.val.last_price
             row == MemRow(score, raw.val.updated_at,
                           IF IsNum(last_prediction) THEN last_prediction ELSE NotNum,
                           IF IsNum(last_price) /\ RLt(Zero, last_price) THEN last_price ELSE NotNum)
         IN  IF ~IsDict(raw) THEN MemLoadRows(pairs, i + 1, acc)
             ELSE IF ~IsNum(score) THEN MemLoadRows(pairs, i + 1, acc)
             ELSE MemLoadRows(pairs, i + 1, Put(acc, Upper(pairs[i][1]), row))

\* LongTermMemoryStore._load, lines 141-170
MemLoad(file) == IF ~file.valid THEN EmptyDict ELSE MemLoadRows(file.rows, 1, EmptyDict)

\* LongTermMemoryStore._save, lines 172-178
MemSave(m) == [m EXCEPT !.file = [valid |-> TRUE, rows |-> DumpDict(m.state, TRUE)]]

MemReturned(m, op, symbol, arg, arg2, ret, existed, previous) ==
    [m EXCEPT !.result = [ op |-> op, symbol |-> symbol, arg |-> arg, arg2 |-> arg2, ret |-> ret,
                           existed |-> existed, previous |-> previous ],
              !.ops = m.ops + 1]

\* LongTermMemoryStore.__init__, lines 135-139
NewMemory(path_file, alpha, updated) ==
    [ alpha |-> _clamp(alpha, Zero, One), state |-> MemLoad(path_file), file |-> path_file,
      updated |-> updated, ops |-> 0,
      result |-> [ op |-> "init", symbol |-> "", arg |-> Zero, arg2 |-> Zero, ret |-> Zero,
                   existed |-> FALSE, previous |-> [score |-> Zero, first |-> FALSE, last_prediction |-> NotNum, last_price |-> NotNum] ] ]

\* LongTermMemoryStore.get, lines 180-185 (a stored row always holds a score)
get(m, symbol) ==
    IF Upper(symbol) \in DOMAIN m.state THEN m.state[Upper(symbol)].score ELSE Zero

\* What an operation finds for the key before it acts.
MemBefore(m, key) ==
    [ score |-> get(m, key), first |-> key \notin m.updated,
      last_prediction |-> IF key \in DOMAIN m.state THEN m.state[key].last_prediction ELSE NotNum,
      last_price |-> IF key \in DOMAIN m.state THEN m.state[key].last_price ELSE NotNum ]

BlendedSwapped(alpha, clamped, previous, key_in_state) ==
    _clamp(IF key_in_state
           THEN RAdd(RMul(RSub(One, alpha), clamped), RMul(alpha, previous))
           ELSE clamped,
           RInt(-1), One)

\* LongTermMemoryStore.update, lines 192-197
Blended(alpha, clamped, previous, key_in_state) ==
    _clamp(IF key_in_state
           THEN RAdd(RMul(alpha, clamped), RMul(RSub(One, alpha), previous))
           ELSE clamped,
           RInt(-1), One)

\* LongTermMemoryStore.update, lines 187-203
update(m, symbol, current_score, t) ==
    LET key == Upper(symbol)
        clamped == _clamp(current_score, RInt(-1), One)
        previous == get(m, key)
        blended == Blended(m.alpha, clamped, previous, key \in DOMAIN m.state)
        old == Get(m.state, key, MemRow(Zero, NoTime, NotNum, NotNum))
        row == [old EXCEPT !.score = blended, !.updated_at = t]
    IN  MemReturned(MemSave([m EXCEPT !.state = Put(m.state, key, row), !.updated = m.updated \cup {key}]),
                    "update", symbol, current_score, Zero, blended, key \in DOMAIN m.state, MemBefore(m, key))

\* LongTermMemoryStore.record_prediction, lines 205-214
record_prediction(m, symbol, prediction_score, reference_price, t) ==
    LET key == Upper(symbol)
        old == Get(m.state, key, MemRow(get(m, key), NoTime, NotNum, NotNum))
        row == [old EXCEPT !.last_prediction = _clamp(prediction_score, RInt(-1), One),
                           !.last_price = reference_price, !.updated_at = t]
        done == IF RLe(reference_price, Zero) THEN m
                ELSE MemSave([m EXCEPT !.state = Put(m.state, key, row)])
    IN  MemReturned(done, "record_prediction", symbol, prediction_score, reference_price, Zero,
                    key \in DOMAIN m.state, MemBefore(m, key))

FeedbackAdjustmentUnsigned(pred, realized_signal, strength) ==
    RMul(RMul(_clamp(strength, Zero, One), RAbs(RMul(pred, realized_signal))), RAbs(pred))

\* LongTermMemoryStore.apply_price_feedback, lines 238-242
FeedbackAdjustment(pred, realized_signal, strength) ==
    LET agreement == RMul(pred, realized_signal)
        feedback_strength == _clamp(strength, Zero, One)
    IN  RMul(RMul(feedback_strength, agreement), RAbs(pred))

\* LongTermMemoryStore.apply_price_feedback, lines 216-250
apply_price_feedback(m, symbol, current_price, strength, t) ==
    LET key == Upper(symbol)
        row == m.state[key]
        pred == _clamp(row.last_prediction, RInt(-1), One)
        ref_price == row.last_price
        realized_return == RSub(RDiv(current_price, ref_price), One)
        realized_signal == _clamp(RDiv(realized_return, R(125, 1000)), RInt(-1), One)
        adjustment == FeedbackAdjustment(pred, realized_signal, strength)
        updated_score == _clamp(RAdd(get(m, key), adjustment), RInt(-1), One)
        new_row == [row EXCEPT !.score = updated_score, !.last_price = current_price, !.updated_at = t]
        noop == RLe(current_price, Zero) \/ key \notin DOMAIN m.state
                  \/ ~IsNum(row.last_prediction) \/ ~IsNum(row.last_price) \/ RLe(row.last_price, Zero)
    IN  IF noop
        THEN MemReturned(m, "apply_price_feedback", symbol, current_price, strength, Zero,
                         key \in DOMAIN m.state, MemBefore(m, key))
        ELSE MemReturned(MemSave([m EXCEPT !.state = Put(m.state, key, new_row)]),
                         "apply_price_feedback", symbol, current_price, strength, adjustment,
                         TRUE, MemBefore(m, key))

(***************************************************************************)
(* Inputs of the LongTermMemoryStore model.                                *)
(***************************************************************************)
MaxMemOps == 3

MemAlphas == {R(1, 2), R(3, 2)}

FileRow(score, updated_at, last_prediction, last_price) == Dict(MemRow(score, updated_at, last_prediction, last_price))

NoMemFile == [valid |-> FALSE, rows |-> <<>>]

\* A hand-edited memory file: values out of range or of the wrong type.
MemFileEdited ==
    [ valid |-> TRUE,
      rows |-> << <<"nvda", FileRow(RInt(5), NoTime, RInt(-3), RInt(100))>>,
                  <<"AMD", FileRow(NotNum, 0, R(1, 2), RInt(100))>>,
                  <<"amd", NotDict>>,
                  <<"MACRO", FileRow(R(-1, 2), 0, NotNum, RInt(-5))>> >> ]

\* A file the store wrote itself.
MemFileSaved ==
    [ valid |-> TRUE,
      rows |-> << <<"NVDA", FileRow(RInt(-1), 0, R(4, 5), RInt(100))>> >> ]

MemFiles == {NoMemFile, MemFileEdited, MemFileSaved}

MemSymbols == {"nvda", "AMD"}
FreshScores == {R(4, 5), Zero, R(-3, 2)}
Predictions == {R(4, 5), RInt(-2)}
ReferencePrices == {Zero, RInt(100)}
FeedbackPrices == {Zero, RInt(90), RInt(110)}
Strengths == {R(1, 2), RInt(2)}

(***************************************************************************)
(* The DecisionLearningStore as a state machine.                           *)
(***************************************************************************)
MemIdle == NewMemory(NoMemFile, R(1, 2), {})
DlIdle == NewStore(ArgsTest, NoFile, <<>>, 1)
ObIdle == [pc |-> "idle"]
FnIdle == [pc |-> "idle"]
CcIdle == [pc |-> "idle"]
BootIdle == [pc |-> "idle"]
CyIdle == [pc |-> "idle"]

OthersIdle == fn = FnIdle /\ cc = CcIdle /\ boot = BootIdle /\ cy = CyIdle

InitDL ==
    /\ component = "dl"
    /\ OthersIdle
    /\ now = 0
    /\ dl \in {NewStore(inst[1], inst[2], <<>>, 1) : inst \in Installations}
    /\ mem = MemIdle
    /\ ob = ObIdle

RecordCall ==
    /\ component = "dl"
    /\ Len(dl.journal) < MaxJournal
    /\ \E inp \in CallInputs :
          dl' = maybe_record_call(dl, inp.signal, inp.feature_profile, inp.source_profile,
                                  EntryThreshold, OptionThreshold, now)
    /\ UNCHANGED <<component, now, mem, ob, others>>

ResolveCall ==
    /\ component = "dl"
    /\ Len(dl.journal) < MaxJournal
    /\ \E symbol \in ResolveSymbols, current_price \in ResolvePrices :
          dl' = maybe_resolve_call(dl, symbol, current_price, now)
    /\ UNCHANGED <<component, now, mem, ob, others>>

MarketReaction ==
    /\ component = "dl"
    /\ Len(dl.journal) < MaxJournal
    /\ \E symbol \in ReactionSymbols, current_price \in ReactionPrices, source_profile \in SourceProfiles :
          dl' = update_from_market_reaction(dl, symbol, current_price, source_profile, now)
    /\ UNCHANGED <<component, now, mem, ob, others>>

\* The bot is restarted: a new store is constructed from the files.
RestartStore ==
    /\ component = "dl"
    /\ dl' = NewStore(dl.args, dl.state_file, dl.journal, dl.next_id)
    /\ UNCHANGED <<component, now, mem, ob, others>>

\* Wall-clock time passes (_now_utc), in hours.  Only the decision-learning
\* store compares times; the memory store merely stamps updated_at.
Tick ==
    /\ component = "dl"
    /\ now < MaxTime
    /\ now' = now + 1
    /\ UNCHANGED <<component, dl, mem, ob, others>>

NextDL == RecordCall \/ ResolveCall \/ MarketReaction \/ RestartStore \/ Tick

SpecDL == InitDL /\ [][NextDL]_vars

(***************************************************************************)
(* The LongTermMemoryStore as a state machine.                             *)
(***************************************************************************)
InitMem ==
    /\ component = "mem"
    /\ OthersIdle
    /\ now = 0
    /\ dl = DlIdle
    /\ mem \in {NewMemory(file, alpha, DOMAIN MemLoad(file)) : file \in MemFiles, alpha \in MemAlphas}
    /\ ob = ObIdle

Update ==
    /\ component = "mem"
    /\ mem.ops < MaxMemOps
    /\ \E symbol \in MemSymbols, current_score \in FreshScores :
          mem' = update(mem, symbol, current_score, now)
    /\ UNCHANGED <<component, now, dl, ob, others>>

RecordPrediction ==
    /\ component = "mem"
    /\ mem.ops < MaxMemOps
    /\ \E symbol \in MemSymbols, prediction_score \in Predictions, reference_price \in ReferencePrices :
          mem' = record_prediction(mem, symbol, prediction_score, reference_price, now)
    /\ UNCHANGED <<component, now, dl, ob, others>>

ApplyPriceFeedback ==
    /\ component = "mem"
    /\ mem.ops < MaxMemOps
    /\ \E symbol \in MemSymbols, current_price \in FeedbackPrices, strength \in Strengths :
          mem' = apply_price_feedback(mem, symbol, current_price, strength, now)
    /\ UNCHANGED <<component, now, dl, ob, others>>

\* The bot is restarted: a new store is constructed from the file.
RestartMemory ==
    /\ component = "mem"
    /\ mem' = [NewMemory(mem.file, mem.alpha, mem.updated) EXCEPT !.ops = mem.ops]
    /\ UNCHANGED <<component, now, dl, ob, others>>

NextMem == Update \/ RecordPrediction \/ ApplyPriceFeedback \/ RestartMemory

SpecMem == InitMem /\ [][NextMem]_vars

(***************************************************************************)
(* Both stores: one of them is the store under test.                       *)
(***************************************************************************)
InitStores == InitDL \/ InitMem

NextStores ==
    \/ RecordCall \/ ResolveCall \/ MarketReaction \/ RestartStore \/ Tick
    \/ Update \/ RecordPrediction \/ ApplyPriceFeedback \/ RestartMemory

SpecStores == InitStores /\ [][NextStores]_vars

(***************************************************************************)
(* Order construction (app/engine.py, strategy/options.py)                 *)
(*                                                                         *)
(* AutoTrader._build_orders runs as a sequence of steps: ob.pc is the      *)
(* loop it is in, ob.i the index of the element the loop is at.  The       *)
(* dicts of a PortfolioSnapshot are sequences of <<symbol, quantity>>      *)
(* pairs in iteration order.  limit_price None is NotNum.                  *)
(***************************************************************************)
TradeOrder(asset_type, symbol, instruction, quantity, limit_price, reason) ==
    [ asset_type |-> asset_type, symbol |-> symbol, instruction |-> instruction,
      quantity |-> quantity, limit_price |-> limit_price, reason |-> reason ]

\* round(value, 2) of a value that is exact in hundredths or ties to even.
Round2(value) ==
    LET scaled == RMul(value, RInt(100))
        low == RFloor(scaled)
        rest == RSub(scaled, RInt(low))
        up == RLt(R(1, 2), rest) \/ (rest = R(1, 2) /\ low % 2 = 1)
    IN  R(IF up THEN low + 1 ELSE low, 100)

\* strategy/options.py option_underlying, on the option symbols in use.
option_underlying(option_symbol) ==
    CASE option_symbol = "META 260417C00100000" -> "META"
      [] option_symbol = "amd260417C00190000" -> "AMD"
      [] option_symbol = "NVDA  260417C00900000" -> "NVDA"
      [] option_symbol = "NVDA  260417C00950000" -> "NVDA"
      [] option_symbol = "AMD  260417C00190000" -> "AMD"
      [] option_symbol = "NVDA  260618C00900000" -> "NVDA"
      [] option_symbol = "NVDA  260417C00990000" -> "NVDA"
      [] OTHER -> option_symbol

\* signals_by_symbol = {signal.symbol: signal for signal in signals}
SignalsBySymbol(signals) ==
    [sym \in {signals[i].symbol : i \in 1..Len(signals)} |->
        signals[CHOOSE i \in 1..Len(signals) :
                    signals[i].symbol = sym /\ \A j \in (i + 1)..Len(signals) : signals[j].symbol # sym]]

Take(seq, n) == SubSeq(seq, 1, IF Len(seq) < n THEN Len(seq) ELSE n)

\* _estimate_account_equity, lines 769-783: cash plus the value of the
\* positions; broker.get_last_price prices a position without a signal and
\* fails or returns None (NotNum) for some symbols.
RECURSIVE EquityValue(_, _, _, _, _)
EquityValue(broker, positions, signals_by_symbol, i, acc) ==
    IF i > Len(positions) THEN acc
    ELSE LET symbol == positions[i][1]
             quantity == positions[i][2]
             latest == Get(broker.last_prices, symbol, NotNum)
         IN  IF quantity = 0 THEN EquityValue(broker, positions, signals_by_symbol, i + 1, acc)
             ELSE IF symbol \in DOMAIN signals_by_symbol
             THEN EquityValue(broker, positions, signals_by_symbol, i + 1,
                              RAdd(acc, RMul(RInt(quantity), signals_by_symbol[symbol].price)))
             ELSE IF IsNum(latest)
             THEN EquityValue(broker, positions, signals_by_symbol, i + 1, RAdd(acc, RMul(RInt(quantity), latest)))
             ELSE EquityValue(broker, positions, signals_by_symbol, i + 1, acc)

\* _estimate_account_equity, lines 764-785
_estimate_account_equity(config, broker, snapshot, signals_by_symbol) ==
    RMax(EquityValue(broker, snapshot.equity_positions, signals_by_symbol, 1, snapshot.cash),
         config.starting_capital)

SupportsAnyEntry(config, signal) == TRUE

\* _signal_supports_llm_entry, lines 187-190
_signal_supports_llm_entry(config, signal) ==
    IF ~config.llm_first_require_signals_for_entries THEN TRUE
    ELSE RLe(config.llm_support_min_signal_score, signal.score)

\* _build_orders_from_llm_plan, lines 723-739: the plan's symbols that have a
\* signal which supports an entry, in plan order.
RECURSIVE PlanCandidates(_, _, _, _, _)
PlanCandidates(config, symbols, signals_by_symbol, i, acc) ==
    IF i > Len(symbols) THEN acc
    ELSE IF symbols[i] \notin DOMAIN signals_by_symbol
    THEN PlanCandidates(config, symbols, signals_by_symbol, i + 1, acc)
    ELSE IF ~_signal_supports_llm_entry(config, signals_by_symbol[symbols[i]])
    THEN PlanCandidates(config, symbols, signals_by_symbol, i + 1, acc)
    ELSE PlanCandidates(config, symbols, signals_by_symbol, i + 1, Append(acc, signals_by_symbol[symbols[i]]))

\* Lines 800-809 and 977-986: an override list without repeated symbols and
\* without symbols that have no signal.
RECURSIVE DedupeOverride(_, _, _, _, _)
DedupeOverride(override, signals_by_symbol, i, seen_symbols, acc) ==
    IF i > Len(override) THEN acc
    ELSE LET symbol == Upper(override[i].symbol)
         IN  IF symbol \in seen_symbols \/ symbol \notin DOMAIN signals_by_symbol
             THEN DedupeOverride(override, signals_by_symbol, i + 1, seen_symbols, acc)
             ELSE DedupeOverride(override, signals_by_symbol, i + 1, seen_symbols \cup {symbol},
                                 Append(acc, override[i]))

\* _build_equity_orders, lines 797-810
EquityCandidates(config, signals, signals_by_symbol, has_override, override) ==
    Take(IF ~has_override
         THEN SelectSeq(signals, LAMBDA signal : RLe(config.min_signal_to_enter, signal.score))
         ELSE DedupeOverride(override, signals_by_symbol, 1, {}, <<>>),
         config.max_equity_positions)

TargetQtyRoundedUp(config, account_equity, candidate_signals) ==
    LET equity_budget == RMul(account_equity, config.equity_capital_fraction)
        per_position_budget == RMin(RMul(account_equity, config.max_position_fraction),
                                    RDiv(equity_budget, RInt(Len(candidate_signals))))
        symbols == {candidate_signals[i].symbol : i \in 1..Len(candidate_signals)}
        LastOf(sym) == candidate_signals[CHOOSE i \in 1..Len(candidate_signals) :
                           candidate_signals[i].symbol = sym
                           /\ \A j \in (i + 1)..Len(candidate_signals) : candidate_signals[j].symbol # sym]
        Qty(signal) == RFloor(RDiv(per_position_budget, signal.price)) + 1
    IN  [sym \in symbols |-> IF Qty(LastOf(sym)) < 0 THEN 0 ELSE Qty(LastOf(sym))]

\* _build_equity_orders, lines 816-825
TargetQty(config, account_equity, candidate_signals) ==
    LET equity_budget == RMul(account_equity, config.equity_capital_fraction)
        per_position_budget == RMin(RMul(account_equity, config.max_position_fraction),
                                    RDiv(equity_budget, RInt(Len(candidate_signals))))
        symbols == {candidate_signals[i].symbol : i \in 1..Len(candidate_signals)}
        LastOf(sym) == candidate_signals[CHOOSE i \in 1..Len(candidate_signals) :
                           candidate_signals[i].symbol = sym
                           /\ \A j \in (i + 1)..Len(candidate_signals) : candidate_signals[j].symbol # sym]
        Qty(signal) == RFloor(RDiv(per_position_budget, signal.price))
    IN  [sym \in symbols |-> IF Qty(LastOf(sym)) < 0 THEN 0 ELSE Qty(LastOf(sym))]

\* strategy/options.py extract_call_contracts, lines 74-93: the chain's
\* contracts that have a positive price, with their premium per contract.
RECURSIVE extract_call_contracts(_, _, _)
extract_call_contracts(raw_contracts, i, acc) ==
    IF i > Len(raw_contracts) THEN acc
    ELSE LET raw == raw_contracts[i]
             basis == IF RLt(Zero, raw.ask) THEN raw.ask ELSE IF RLt(Zero, raw.mark) THEN raw.mark ELSE raw.bid
             contract == [ symbol |-> raw.symbol, dte |-> raw.dte, delta |-> raw.delta,
                           bid |-> raw.bid, ask |-> raw.ask, mark |-> raw.mark,
                           volume |-> raw.volume, open_interest |-> raw.open_interest,
                           premium_per_contract |-> RMul(basis, RInt(100)) ]
         IN  IF RLe(basis, Zero) THEN extract_call_contracts(raw_contracts, i + 1, acc)
             ELSE extract_call_contracts(raw_contracts, i + 1, Append(acc, contract))

NoContract == [symbol |-> ""]

\* choose_bullish_call, lines 110-117: a contract the filters let through.
Eligible(contract, max_premium_dollars, min_dte, max_dte) ==
    /\ ~(contract.dte < min_dte \/ contract.dte > max_dte)
    /\ ~RLt(max_premium_dollars, contract.premium_per_contract)
    /\ IsNum(contract.delta) =>
          ~(RLt(RAbs(contract.delta), R(20, 100)) \/ RLt(R(70, 100), RAbs(contract.delta)))

\* choose_bullish_call, lines 113-125
Quality(contract, target_delta) ==
    LET abs_delta == IF IsNum(contract.delta) THEN RAbs(contract.delta) ELSE target_delta
        spread == IF RLt(Zero, contract.ask) /\ RLt(Zero, contract.bid)
                  THEN RSub(contract.ask, contract.bid) ELSE contract.ask
        liquidity_bonus == RAdd(RMul(R(5, 10000), RInt(contract.open_interest)),
                                RMul(R(2, 10000), RInt(contract.volume)))
    IN  RSub(RAdd(RAbs(RSub(abs_delta, target_delta)), RMul(R(3, 100), RMax(spread, Zero))), liquidity_bonus)

\* choose_bullish_call, lines 98-132: the eligible contract of lowest quality
\* value, the first of them in chain order (the sort is stable).
choose_bullish_call(option_chain, max_premium_dollars, min_dte, max_dte, target_delta) ==
    LET candidates == extract_call_contracts(option_chain, 1, <<>>)
        filtered == {i \in 1..Len(candidates) : Eligible(candidates[i], max_premium_dollars, min_dte, max_dte)}
        best == CHOOSE i \in filtered :
                    \A j \in filtered :
                        \/ RLt(Quality(candidates[i], target_delta), Quality(candidates[j], target_delta))
                        \/ (Quality(candidates[i], target_delta) = Quality(candidates[j], target_delta) /\ i <= j)
    IN  IF filtered = {} THEN NoContract ELSE candidates[best]

\* The state of one _build_orders call before its first step.
NewBuild(config, broker, snapshot, signals, llm_plan) ==
    [ pc |-> "start", config |-> config, broker |-> broker, snapshot |-> snapshot,
      signals |-> signals, llm_plan |-> llm_plan,
      path |-> "none", signals_by_symbol |-> EmptyDict, account_equity |-> Zero,
      has_override |-> FALSE, equity_override |-> <<>>, option_override |-> <<>>, forced_exits |-> {},
      candidate_signals |-> <<>>, target_qty |-> EmptyDict, estimated_cash |-> Zero, orders |-> <<>>, i |-> 0,
      option_orders |-> <<>>, remaining_slots |-> 0, budget_left |-> Zero, cash_left |-> Zero,
      option_underlyings_held |-> {}, option_candidates |-> <<>>,
      result |-> <<>>, used_plan |-> FALSE ]

\* Loop heads: a loop over an empty list is left at once.
EnterEntries(o) ==
    IF Len(o.candidate_signals) = 0 THEN [o EXCEPT !.pc = "options", !.i = 0]
    ELSE [o EXCEPT !.pc = "equity_entries", !.i = 1]

EnterExits(o) ==
    IF Len(o.snapshot.equity_positions) = 0 THEN EnterEntries(o)
    ELSE [o EXCEPT !.pc = "equity_exits", !.i = 1]

EnterCloses(o) ==
    IF Len(o.snapshot.option_positions) = 0 THEN [o EXCEPT !.pc = "option_budget", !.i = 0]
    ELSE [o EXCEPT !.pc = "option_closes", !.i = 1]

EnterOpens(o) ==
    IF Len(o.option_candidates) = 0 THEN [o EXCEPT !.pc = "combine", !.i = 0]
    ELSE [o EXCEPT !.pc = "option_opens", !.i = 1]

\* _build_equity_orders, lines 797-825: candidates, targets, and the cash
\* estimate starting at the snapshot's cash.
_build_equity_orders(o) ==
    LET candidate_signals == EquityCandidates(o.config, o.signals, o.signals_by_symbol,
                                              o.has_override, o.equity_override)
    IN  EnterExits([o EXCEPT !.candidate_signals = candidate_signals,
                             !.target_qty = TargetQty(o.config, o.account_equity, candidate_signals),
                             !.orders = <<>>, !.option_orders = <<>>,
                             !.estimated_cash = o.snapshot.cash])

\* _build_orders, lines 704-705: the rule-based builders, no override.
BuildFromRules(o) ==
    _build_equity_orders([o EXCEPT !.path = "rules", !.has_override = FALSE, !.forced_exits = {},
                                   !.equity_override = <<>>, !.option_override = <<>>])

\* _build_orders_from_llm_plan, lines 721-748
_build_orders_from_llm_plan(o) ==
    _build_equity_orders(
        [o EXCEPT !.path = "plan", !.has_override = TRUE,
                  !.forced_exits = {Upper(o.llm_plan.exit_symbols[k]) : k \in 1..Len(o.llm_plan.exit_symbols)},
                  !.equity_override = PlanCandidates(o.config, o.llm_plan.equity_buy_symbols, o.signals_by_symbol, 1, <<>>),
                  !.option_override = PlanCandidates(o.config, o.llm_plan.option_buy_symbols, o.signals_by_symbol, 1, <<>>)])

UsesPlanWhateverConfidence(config, llm_plan) ==
    /\ llm_plan.present
    /\ config.enable_llm_first_decisioning

\* _build_orders, lines 684-688
UsesPlan(config, llm_plan) ==
    /\ llm_plan.present
    /\ config.enable_llm_first_decisioning
    /\ RLe(config.llm_first_min_confidence, llm_plan.confidence)

\* _build_orders, lines 678-695
StartBuildOf(o) ==
    LET signals_by_symbol == SignalsBySymbol(o.signals)
        started == [o EXCEPT !.signals_by_symbol = signals_by_symbol,
                             !.account_equity = _estimate_account_equity(o.config, o.broker, o.snapshot, signals_by_symbol)]
    IN  IF Len(o.signals) = 0 THEN [o EXCEPT !.pc = "done", !.result = <<>>, !.used_plan = FALSE]
        ELSE IF UsesPlan(o.config, o.llm_plan) THEN _build_orders_from_llm_plan(started)
        ELSE BuildFromRules(started)

IsForcedExitNever(forced_exits, symbol) == FALSE

\* Lines 832, 931 and 991: symbol.upper() in forced_exits.
IsForcedExit(forced_exits, symbol) == Upper(symbol) \in forced_exits

ExitsOnlyWithSignal(config, has_signal, score) ==
    has_signal /\ RLe(score, config.signal_to_exit)

\* Exit loop, line 867: signal is None or signal.score <= signal_to_exit.
ExitsOnSignal(config, has_signal, score) ==
    ~has_signal \/ RLe(score, config.signal_to_exit)

\* One pass of the exit loop, lines 828-879.
EquityExitOf(o) ==
    LET symbol == o.snapshot.equity_positions[o.i][1]
        quantity == o.snapshot.equity_positions[o.i][2]
        has_signal == symbol \in DOMAIN o.signals_by_symbol
        signal == o.signals_by_symbol[symbol]
        desired == o.target_qty[symbol]
        proceeds(qty) == IF has_signal THEN RMul(RInt(qty), signal.price) ELSE Zero
        Sell(qty, reason) ==
            [o EXCEPT !.orders = Append(o.orders, TradeOrder("EQUITY", symbol, "SELL", qty, NotNum, reason)),
                      !.estimated_cash = RAdd(o.estimated_cash, proceeds(qty))]
        after == IF quantity <= 0 THEN o
                 ELSE IF IsForcedExit(o.forced_exits, symbol) THEN Sell(quantity, "llm_forced_exit")
                 ELSE IF symbol \in DOMAIN o.target_qty
                 THEN IF quantity > desired THEN Sell(quantity - desired, "rebalance_down") ELSE o
                 ELSE IF ExitsOnSignal(o.config, has_signal, IF has_signal THEN signal.score ELSE NotNum)
                 THEN Sell(quantity, "signal_exit")
                 ELSE o
    IN  IF o.i = Len(o.snapshot.equity_positions) THEN EnterEntries(after)
        ELSE [after EXCEPT !.i = o.i + 1]

EntryBlockedByNotionalOnly(config, notional, estimated_cash) ==
    RLt(notional, config.min_order_notional)

\* Entry loop, lines 890-893: the order is too small or the cash too short.
EntryBlocked(config, notional, estimated_cash) ==
    RLt(notional, config.min_order_notional) \/ RLt(estimated_cash, notional)

\* One pass of the entry loop, lines 882-905.  The reason's formatted score
\* is left out.
EquityEntryOf(o) ==
    LET signal == o.candidate_signals[o.i]
        desired == Get(o.target_qty, signal.symbol, 0)
        held == PairsGet(o.snapshot.equity_positions, signal.symbol, 0)
        to_buy == desired - held
        notional == RMul(RInt(to_buy), signal.price)
        bought == [o EXCEPT !.orders = Append(o.orders,
                                TradeOrder("EQUITY", signal.symbol, "BUY", to_buy,
                                           Round2(RMul(signal.price, R(10025, 10000))), "signal_entry")),
                            !.estimated_cash = RSub(o.estimated_cash, notional)]
        after == IF to_buy <= 0 THEN o
                 ELSE IF EntryBlocked(o.config, notional, o.estimated_cash) THEN o
                 ELSE bought
    IN  IF o.i = Len(o.candidate_signals) THEN [after EXCEPT !.pc = "options", !.i = 0]
        ELSE [after EXCEPT !.i = o.i + 1]

\* _build_option_orders, lines 920-924
BeginOptionOrdersOf(o) ==
    IF ~o.config.enable_options \/ o.config.max_option_contracts <= 0
    THEN [o EXCEPT !.option_orders = <<>>, !.pc = "combine", !.i = 0]
    ELSE EnterCloses([o EXCEPT !.option_orders = <<>>])

\* One pass of the close loop, lines 927-954.
OptionCloseOf(o) ==
    LET option_symbol == o.snapshot.option_positions[o.i][1]
        quantity == o.snapshot.option_positions[o.i][2]
        underlying == option_underlying(option_symbol)
        has_signal == underlying \in DOMAIN o.signals_by_symbol
        signal == o.signals_by_symbol[underlying]
        Close(reason) ==
            [o EXCEPT !.option_orders = Append(o.option_orders,
                          TradeOrder("OPTION", option_symbol, "SELL_TO_CLOSE", quantity, NotNum, reason))]
        after == IF quantity <= 0 THEN o
                 ELSE IF IsForcedExit(o.forced_exits, underlying) THEN Close("llm_forced_exit")
                 ELSE IF has_signal /\ RLe(signal.score, o.config.signal_to_exit) THEN Close("underlying_signal_exit")
                 ELSE o
    IN  IF o.i = Len(o.snapshot.option_positions) THEN [after EXCEPT !.pc = "option_budget", !.i = 0]
        ELSE [after EXCEPT !.i = o.i + 1]

RECURSIVE OpenContracts(_, _)
OpenContracts(option_positions, i) ==
    IF i > Len(option_positions) THEN 0
    ELSE (IF option_positions[i][2] > 0 THEN option_positions[i][2] ELSE 0) + OpenContracts(option_positions, i + 1)

\* _build_option_orders, lines 956-986: slots, budget and candidates of the
\* open loop.
BeginOptionOpensOf(o) ==
    LET remaining_slots == o.config.max_option_contracts - OpenContracts(o.snapshot.option_positions, 1)
        max_option_budget == RMin(RMul(o.account_equity, o.config.option_capital_fraction), o.estimated_cash)
        held == {option_underlying(o.snapshot.option_positions[k][1]) :
                    k \in {j \in 1..Len(o.snapshot.option_positions) : o.snapshot.option_positions[j][2] > 0}}
        candidate_signals == IF ~o.has_override THEN o.signals
                             ELSE DedupeOverride(o.option_override, o.signals_by_symbol, 1, {}, <<>>)
    IN  IF remaining_slots <= 0 THEN [o EXCEPT !.pc = "combine", !.i = 0]
        ELSE IF RLt(max_option_budget, o.config.min_order_notional) THEN [o EXCEPT !.pc = "combine", !.i = 0]
        ELSE EnterOpens([o EXCEPT !.remaining_slots = remaining_slots,
                                  !.budget_left = max_option_budget, !.cash_left = o.estimated_cash,
                                  !.option_underlyings_held = held, !.option_candidates = candidate_signals])

NoChain == [raises |-> FALSE, contracts |-> <<>>]

UnderlyingHeldIgnored(option_underlyings_held, symbol) == FALSE

\* Open loop, line 995: signal.symbol in option_underlyings_held.
UnderlyingHeld(option_underlyings_held, symbol) == symbol \in option_underlyings_held

\* One pass of the open loop, lines 988-1040.  The reason's formatted score,
\* dte and delta are left out.
OptionOpenOf(o) ==
    LET signal == o.option_candidates[o.i]
        per_contract_budget == RMin(o.budget_left, o.cash_left)
        chain == Get(o.broker.chains, signal.symbol, NoChain)
        contract == choose_bullish_call(chain.contracts, per_contract_budget, o.config.option_min_dte,
                                        o.config.option_max_dte, o.config.option_target_delta)
        limit_basis == IF RLt(Zero, contract.ask) THEN contract.ask ELSE contract.mark
        limit_price == IF RLt(Zero, limit_basis) THEN Round2(limit_basis) ELSE NotNum
        opened == [o EXCEPT !.option_orders = Append(o.option_orders,
                                TradeOrder("OPTION", contract.symbol, "BUY_TO_OPEN", 1, limit_price, "option_overlay")),
                            !.remaining_slots = o.remaining_slots - 1,
                            !.budget_left = RSub(o.budget_left, contract.premium_per_contract),
                            !.cash_left = RSub(o.cash_left, contract.premium_per_contract),
                            !.option_underlyings_held = o.option_underlyings_held \cup {signal.symbol}]
        break == [o EXCEPT !.pc = "combine", !.i = 0]
        Continue(after) == IF o.i = Len(o.option_candidates) THEN [after EXCEPT !.pc = "combine", !.i = 0]
                           ELSE [after EXCEPT !.i = o.i + 1]
    IN  IF o.remaining_slots <= 0 THEN break
        ELSE IF IsForcedExit(o.forced_exits, signal.symbol) THEN Continue(o)
        ELSE IF ~o.has_override /\ RLt(signal.score, o.config.option_signal_threshold) THEN break
        ELSE IF UnderlyingHeld(o.option_underlyings_held, signal.symbol) THEN Continue(o)
        ELSE IF RLt(per_contract_budget, o.config.min_order_notional) THEN break
        ELSE IF chain.raises THEN Continue(o)
        ELSE IF contract = NoContract THEN Continue(o)
        ELSE IF RLt(per_contract_budget, contract.premium_per_contract) THEN Continue(o)
        ELSE Continue(opened)

UntruncatedOrders(combined, max_orders_per_cycle) == combined

\* Lines 708-709, 760-761 and 697-698: combined[: max_orders_per_cycle].
Truncated(combined, max_orders_per_cycle) ==
    IF Len(combined) > max_orders_per_cycle THEN SubSeq(combined, 1, max_orders_per_cycle) ELSE combined

CombinedOptionsFirst(equity_orders, option_orders) == option_orders \o equity_orders

\* Lines 707 and 759: combined = equity_orders + option_orders.
Combined(equity_orders, option_orders) == equity_orders \o option_orders

\* Lines 759-762 with 696-703 on the plan path, lines 707-710 on the rule
\* path: a plan that yields no order falls back to the rules.
CombineOf(o) ==
    LET combined == Truncated(Combined(o.orders, o.option_orders), o.config.max_orders_per_cycle)
    IN  IF o.path = "plan"
        THEN IF Len(combined) > 0
             THEN [o EXCEPT !.pc = "done", !.result = Truncated(combined, o.config.max_orders_per_cycle),
                            !.used_plan = TRUE]
             ELSE BuildFromRules(o)
        ELSE [o EXCEPT !.pc = "done", !.result = combined, !.used_plan = FALSE]

(***************************************************************************)
(* Inputs of the order-construction model.                                 *)
(***************************************************************************)
\* core/config.py, lines 133-174 and 226-230: the defaults of BotConfig.
DefaultConfig ==
    [ starting_capital |-> RInt(1000), max_equity_positions |-> 6,
      equity_capital_fraction |-> R(60, 100), max_position_fraction |-> R(20, 100),
      min_signal_to_enter |-> R(12, 1000), signal_to_exit |-> R(-18, 1000),
      enable_options |-> TRUE, option_capital_fraction |-> R(30, 100),
      option_signal_threshold |-> R(35, 1000), option_min_dte |-> 14, option_max_dte |-> 45,
      option_target_delta |-> R(45, 100), max_option_contracts |-> 2,
      min_order_notional |-> RInt(25), max_orders_per_cycle |-> 8,
      enable_llm_first_decisioning |-> TRUE, llm_first_min_confidence |-> R(35, 100),
      llm_first_require_signals_for_entries |-> TRUE, llm_support_min_signal_score |-> Zero ]

\* Few large positions, no options.
ConcentratedConfig ==
    [DefaultConfig EXCEPT !.equity_capital_fraction = One, !.max_position_fraction = R(1, 2),
                          !.enable_options = FALSE]

\* One order per cycle, one position, one contract; plan entries need no
\* supporting signal.
TightConfig ==
    [DefaultConfig EXCEPT !.max_orders_per_cycle = 1, !.max_equity_positions = 1,
                          !.max_option_contracts = 1, !.min_order_notional = RInt(60),
                          !.llm_first_require_signals_for_entries = FALSE]

\* The plan is not consulted.
RulesOnlyConfig ==
    [DefaultConfig EXCEPT !.enable_llm_first_decisioning = FALSE, !.max_orders_per_cycle = 3]

Configs == {DefaultConfig, ConcentratedConfig, TightConfig, RulesOnlyConfig}

\* Ranked signal lists (descending score).
SignalsExpensive == <<Sig("NVDA", RInt(400), R(18, 100)), Sig("AMD", RInt(400), R(12, 100)), Sig("META", RInt(100), R(-5, 100))>>
SignalsCheap ==
    <<Sig("NVDA", RInt(100), R(18, 100)), Sig("AMD", RInt(40), R(5, 100)), Sig("META", RInt(100), R(-2, 100)),
      Sig("PENNY", RInt(5), R(-5, 100))>>
SignalLists == {<<>>, SignalsExpensive, SignalsCheap}

PortfolioSnapshot(cash, equity_positions, option_positions) ==
    [cash |-> cash, equity_positions |-> equity_positions, option_positions |-> option_positions]

Snapshots ==
    { PortfolioSnapshot(RInt(500), <<>>, <<>>),
      PortfolioSnapshot(RInt(500), << <<"META", 10>> >>, <<>>),
      PortfolioSnapshot(RInt(800), << <<"NVDA", 5>>, <<"OLD", 3>>, <<"GONE", 0>> >>,
                        << <<"META 260417C00100000", 1>>, <<"amd260417C00190000", 0>> >>),
      PortfolioSnapshot(RInt(500), <<>>, << <<"NVDA  260417C00900000", 1>> >>),
      PortfolioSnapshot(RInt(500), << <<"PENNY", 2>>, <<"AMD", 6>> >>, <<>>) }

RawContract(symbol, dte, delta, bid, ask, mark, volume, open_interest) ==
    [ symbol |-> symbol, dte |-> dte, delta |-> delta, bid |-> bid, ask |-> ask, mark |-> mark,
      volume |-> volume, open_interest |-> open_interest ]

Chain(contracts) == [raises |-> FALSE, contracts |-> contracts]
ChainFails == [raises |-> TRUE, contracts |-> <<>>]

\* The chains of tests/test_engine.py, with a cheaper NVDA strike, a contract
\* beyond option_max_dte and one without a price.
BrokerLive ==
    [ chains |->
        [sym \in {"NVDA", "AMD"} |->
            IF sym = "NVDA"
            THEN Chain(<< RawContract("NVDA  260417C00900000", 30, R(45, 100), R(110, 100), R(120, 100), R(115, 100), 500, 3000),
                          RawContract("NVDA  260417C00950000", 30, R(30, 100), R(45, 100), R(50, 100), R(48, 100), 100, 200),
                          RawContract("NVDA  260618C00900000", 60, R(45, 100), R(10, 100), R(20, 100), R(15, 100), 900, 9000),
                          RawContract("NVDA  260417C00990000", 30, R(40, 100), Zero, Zero, Zero, 0, 0) >>)
            ELSE Chain(<< RawContract("AMD  260417C00190000", 30, R(42, 100), R(95, 100), One, R(98, 100), 800, 2500) >>)],
      last_prices |-> [sym \in {"OLD"} |-> RInt(20)] ]

\* The chain request for NVDA fails, AMD's only contract has a bid alone and
\* no delta, and no last price is to be had.
BrokerDown ==
    [ chains |->
        [sym \in {"NVDA", "AMD"} |->
            IF sym = "NVDA" THEN ChainFails
            ELSE Chain(<< RawContract("AMD  260417C00190000", 30, NotNum, R(30, 100), Zero, Zero, 0, 0) >>)],
      last_prices |-> EmptyDict ]

Brokers == {BrokerLive, BrokerDown}

LLMDecisionPlan(equity_buy_symbols, option_buy_symbols, exit_symbols, confidence) ==
    [ present |-> TRUE, equity_buy_symbols |-> equity_buy_symbols, option_buy_symbols |-> option_buy_symbols,
      exit_symbols |-> exit_symbols, confidence |-> confidence ]

NoPlan ==
    [ present |-> FALSE, equity_buy_symbols |-> <<>>, option_buy_symbols |-> <<>>,
      exit_symbols |-> <<>>, confidence |-> Zero ]

Plans ==
    { NoPlan,
      LLMDecisionPlan(<<"AMD", "XYZ">>, <<"NVDA", "META">>, <<"META", "PENNY">>, R(4, 5)),
      LLMDecisionPlan(<<"AMD", "NVDA", "META">>, <<"AMD">>, <<"NVDA">>, R(35, 100)),
      LLMDecisionPlan(<<"XYZ">>, <<>>, <<>>, R(9, 10)),
      LLMDecisionPlan(<<"AMD">>, <<>>, <<"META">>, R(1, 5)) }

(***************************************************************************)
(* Order construction as a state machine.                                  *)
(***************************************************************************)
InitOrders ==
    /\ component = "orders"
    /\ OthersIdle
    /\ now = 0
    /\ dl = DlIdle
    /\ mem = MemIdle
    /\ ob \in {NewBuild(config, broker, snapshot, signals, llm_plan) :
                  config \in Configs, broker \in Brokers, snapshot \in Snapshots,
                  signals \in SignalLists, llm_plan \in Plans}

StartBuild ==
    /\ component = "orders"
    /\ ob.pc = "start"
    /\ ob' = StartBuildOf(ob)
    /\ UNCHANGED <<component, now, dl, mem, others>>

EquityExit ==
    /\ component = "orders"
    /\ ob.pc = "equity_exits"
    /\ ob' = EquityExitOf(ob)
    /\ UNCHANGED <<component, now, dl, mem, others>>

EquityEntry ==
    /\ component = "orders"
    /\ ob.pc = "equity_entries"
    /\ ob' = EquityEntryOf(ob)
    /\ UNCHANGED <<component, now, dl, mem, others>>

BeginOptionOrders ==
    /\ component = "orders"
    /\ ob.pc = "options"
    /\ ob' = BeginOptionOrdersOf(ob)
    /\ UNCHANGED <<component, now, dl, mem, others>>

OptionClose ==
    /\ component = "orders"
    /\ ob.pc = "option_closes"
    /\ ob' = OptionCloseOf(ob)
    /\ UNCHANGED <<component, now, dl, mem, others>>

BeginOptionOpens ==
    /\ component = "orders"
    /\ ob.pc = "option_budget"
    /\ ob' = BeginOptionOpensOf(ob)
    /\ UNCHANGED <<component, now, dl, mem, others>>

OptionOpen ==
    /\ component = "orders"
    /\ ob.pc = "option_opens"
    /\ ob' = OptionOpenOf(ob)
    /\ UNCHANGED <<component, now, dl, mem, others>>

Combine ==
    /\ component = "orders"
    /\ ob.pc = "combine"
    /\ ob' = CombineOf(ob)
    /\ UNCHANGED <<component, now, dl, mem, others>>

NextOrders ==
    \/ StartBuild \/ EquityExit \/ EquityEntry \/ BeginOptionOrders
    \/ OptionClose \/ BeginOptionOpens \/ OptionOpen \/ Combine

SpecOrders == InitOrders /\ [][NextOrders]_vars

(***************************************************************************)
(* Properties of the DecisionLearningStore.                                *)
(***************************************************************************)
\* The step appends one event to the journal.
Journaled == Len(dl'.journal) = Len(dl.journal) + 1

LastEvent(s) == s.journal[Len(s.journal)]

\* The step is a resolution of an open call with outcome bad_call.
BadCallResolved ==
    /\ Journaled
    /\ LastEvent(dl').event = "decision_call_resolved"
    /\ LastEvent(dl').outcome = "bad_call"

PositiveFeatures(feature_profile) ==
    {k \in FeatureSet : RLt(Zero, Exposure(feature_profile, k))}

\* The step is maybe_record_call for a symbol that has an open call.
RecordOnOpenCall ==
    /\ dl'.result.op = "maybe_record_call"
    /\ dl' # dl
    /\ Upper(dl'.result.symbol) \in DOMAIN dl.open_calls

\* C1: open calls are keyed by the upper-cased symbol, so a symbol has at most
\* one open call, and maybe_record_call for a symbol that already has an open
\* call leaves that call (id, created_at, entry_price, profiles) and the
\* journal as they were.
C1_OneOpenCallPerSymbol ==
    /\ [](\A k \in DOMAIN dl.open_calls : Upper(k) = k)
    /\ [][RecordOnOpenCall =>
            /\ dl'.open_calls = dl.open_calls
            /\ dl'.journal = dl.journal
            /\ dl'.state_file = dl.state_file]_vars

\* maybe_record_call("nvda") was the last operation while the call opened for
\* "NVDA" (score 0.18, id 1) is still the open call.
C1_Witness ==
    /\ dl.result.op = "maybe_record_call"
    /\ dl.result.symbol = "nvda"
    /\ "NVDA" \in DOMAIN dl.open_calls
    /\ dl.open_calls["NVDA"].signal_score = R(18, 100)
    /\ dl.open_calls["NVDA"].id = 1
    /\ Len(dl.journal) = 1

\* C4 as written: a bad_call resolution strictly increases the stored penalty
\* of every feature whose profile value is positive.
C4_BadCallStrictlyIncreases ==
    [][BadCallResolved =>
        \A k \in PositiveFeatures(LastEvent(dl').feature_profile) :
            RLt(dl.feature_penalties[k], dl'.feature_penalties[k])]_vars

\* C4 amended: a bad_call resolution never lowers a penalty, and it strictly
\* increases the penalty of every feature with a positive profile value
\* whose penalty is below max_feature_penalty, provided the learning rate is
\* positive and the realized return is not zero.
C4_BadCallIncreasesBelowCap ==
    [][BadCallResolved =>
        /\ \A k \in FeatureSet : RLe(dl.feature_penalties[k], dl'.feature_penalties[k])
        /\ \A k \in PositiveFeatures(LastEvent(dl').feature_profile) :
              ( /\ RLt(dl.feature_penalties[k], dl.cfg.max_feature_penalty)
                /\ RLt(Zero, dl.cfg.learning_rate)
                /\ LastEvent(dl').realized_return # Zero )
              => RLt(dl.feature_penalties[k], dl'.feature_penalties[k])]_vars

\* A bad call has been resolved and raised the penalty of a feature.
C4_Witness ==
    /\ Len(dl.journal) > 0
    /\ LastEvent(dl).event = "decision_call_resolved"
    /\ LastEvent(dl).outcome = "bad_call"
    /\ \E k \in DOMAIN LastEvent(dl).penalty_update :
          /\ k \in PositiveFeatures(LastEvent(dl).feature_profile)
          /\ RLt(Zero, LastEvent(dl).penalty_update[k])

\* Source types a caller may ask the multiplier of.
AskedSourceTypes == DOMAIN dl.source_bias \cup {" News ", "SOCIAL", "blog", " "}

\* C5: every feature penalty is in [0, max_feature_penalty], every source
\* bias in [-max_source_bias, max_source_bias], and source_multiplier_for
\* returns a value in [0.25, 2.0], whatever was loaded and whatever was done.
C5_LearnedValuesBounded ==
    /\ \A k \in DOMAIN dl.feature_penalties :
          /\ RLe(Zero, dl.feature_penalties[k])
          /\ RLe(dl.feature_penalties[k], dl.cfg.max_feature_penalty)
    /\ \A src \in DOMAIN dl.source_bias :
          /\ RLe(RNeg(dl.cfg.max_source_bias), dl.source_bias[src])
          /\ RLe(dl.source_bias[src], dl.cfg.max_source_bias)
    /\ \A src \in AskedSourceTypes :
          /\ RLe(R(1, 4), source_multiplier_for(dl, src))
          /\ RLe(source_multiplier_for(dl, src), RInt(2))

\* A store loaded from the hand-edited file (penalty 5 and bias 3 on disk)
\* that has since resolved a call: the values sit on their caps.
C5_Witness ==
    /\ dl.state_file.valid
    /\ Len(dl.journal) > 0
    /\ LastEvent(dl).event = "decision_call_resolved"
    /\ dl.feature_penalties["momentum_20d"] = dl.cfg.max_feature_penalty
    /\ "news" \in DOMAIN dl.source_bias
    /\ dl.source_bias["news"] = dl.cfg.max_source_bias
    /\ RLt(Zero, dl.cfg.max_source_bias)

\* Feature profiles of signals the penalties are applied to.
ScoredProfiles == {FeatureProfileA, FeatureProfileB}

\* The part of adjustment_for that one feature contributes (line 213).
Contribution(s, feature_profile, k) ==
    RNeg(RMul(s.feature_penalties[k], Exposure(feature_profile, k)))

ProfileValue(feature_profile, k) ==
    LET raw_value == Get(feature_profile, k, NotNum)
    IN  IF IsNum(raw_value) THEN raw_value ELSE Zero

\* C6: adjustment_for is never positive, a feature whose value is not
\* positive contributes nothing, the dampened contribution
\* value - penalty x max(0, value) never has the opposite sign of value, and a
\* penalty learned from one symbol's bad call lowers the adjustment of any
\* other profile with positive exposure to the feature.
C6_PenaltiesOnlyDampen ==
    /\ \A fp \in ScoredProfiles :
          /\ RLe(adjustment_for(dl, fp), Zero)
          /\ \A k \in FeatureSet :
                LET value == ProfileValue(fp, k)
                    dampened == RAdd(value, Contribution(dl, fp, k))
                IN  /\ RLe(value, Zero) => Contribution(dl, fp, k) = Zero
                    /\ ~(RLt(Zero, value) /\ RLt(dampened, Zero))
                    /\ ~(RLt(value, Zero) /\ RLt(Zero, dampened))
    /\ ( /\ Len(dl.journal) > 0
         /\ LastEvent(dl).event = "decision_call_resolved"
         /\ LastEvent(dl).outcome = "bad_call" )
       => \A k \in DOMAIN LastEvent(dl).penalty_update :
             RLt(Zero, LastEvent(dl).penalty_update[k]) =>
                \A fp \in ScoredProfiles :
                    RLt(Zero, Exposure(fp, k)) => RLt(adjustment_for(dl, fp), Zero)

InUnit(x) == RLe(RInt(-1), x) /\ RLe(x, One)

BlendOf(m) ==
    _clamp(RAdd(RMul(m.alpha, _clamp(m.result.arg, RInt(-1), One)),
                RMul(RSub(One, m.alpha), m.result.previous.score)),
           RInt(-1), One)

\* C7 as written: update returns clamp(fresh) whenever update has not yet
\* stored a score for the key, whatever record_prediction or
\* apply_price_feedback did to the key before, and the blend otherwise.
C7_FirstUpdateReturnsFresh ==
    mem.result.op = "update" =>
        IF mem.result.previous.first
        THEN mem.result.ret = _clamp(mem.result.arg, RInt(-1), One)
        ELSE mem.result.ret = BlendOf(mem)

\* C7 amended: update returns clamp(fresh) when the store holds no entry for
\* the key, and clamp(alpha x clamp(fresh) + (1 - alpha) x previous) when it
\* holds one, where an entry created by record_prediction has score 0.
C7_UpdateBlendsWithStoredEntry ==
    mem.result.op = "update" =>
        /\ mem.result.ret = get(mem, mem.result.symbol)
        /\ IF mem.result.existed
           THEN mem.result.ret = BlendOf(mem)
           ELSE mem.result.ret = _clamp(mem.result.arg, RInt(-1), One)

\* The first update of a key that record_prediction had entered: 0.8 is
\* blended with the entry's score 0 and 0.4 is returned.
C7_Witness ==
    /\ mem.result.op = "update"
    /\ mem.result.previous.first
    /\ mem.result.existed
    /\ mem.result.arg = R(4, 5)
    /\ mem.alpha = R(1, 2)
    /\ mem.result.ret = R(2, 5)

\* apply_price_feedback acted on a positive prediction made at a higher
\* price, with positive strength and a stored score in [-1, 1].
FeedbackAfterDecline ==
    /\ mem.result.op = "apply_price_feedback"
    /\ IsNum(mem.result.previous.last_prediction)
    /\ RLt(Zero, mem.result.previous.last_prediction)
    /\ IsNum(mem.result.previous.last_price)
    /\ RLt(Zero, mem.result.arg)
    /\ RLt(mem.result.arg, mem.result.previous.last_price)
    /\ RLt(Zero, mem.result.arg2)
    /\ InUnit(mem.result.previous.score)

\* C9 as written: the adjustment is negative and the stored score is strictly
\* lower afterwards.
C9_FeedbackStrictlyLowers ==
    FeedbackAfterDecline =>
        /\ RLt(mem.result.ret, Zero)
        /\ RLt(get(mem, mem.result.symbol), mem.result.previous.score)

\* C9 amended: the adjustment is negative, the stored score is never higher
\* afterwards, and it is strictly lower unless it was already -1.
C9_FeedbackLowersAboveFloor ==
    FeedbackAfterDecline =>
        /\ RLt(mem.result.ret, Zero)
        /\ RLe(get(mem, mem.result.symbol), mem.result.previous.score)
        /\ RLt(RInt(-1), mem.result.previous.score) =>
              RLt(get(mem, mem.result.symbol), mem.result.previous.score)

\* Feedback after a decline on a score above the floor.
C9_Witness ==
    /\ FeedbackAfterDecline
    /\ RLt(RInt(-1), mem.result.previous.score)
    /\ RLt(get(mem, mem.result.symbol), mem.result.previous.score)

\* C10: every stored score and last_prediction is in [-1, 1] and every stored
\* last_price is positive, whatever was loaded and whatever was done.
C10_MemoryValuesBounded ==
    \A key \in DOMAIN mem.state :
        /\ InUnit(get(mem, key))
        /\ IsNum(mem.state[key].last_prediction) => InUnit(mem.state[key].last_prediction)
        /\ IsNum(mem.state[key].last_price) => RLt(Zero, mem.state[key].last_price)

(***************************************************************************)
(* Properties of order construction.                                       *)
(***************************************************************************)
\* The builders have been entered (they are not when there is no signal).
Building == ob.pc \notin {"idle", "start"} /\ ob.path # "none"

Last(seq) == seq[Len(seq)]

\* Estimated proceeds of an equity order: an exit of a symbol without a
\* signal has no price and adds nothing; an entry costs its notional.
RECURSIVE CashFlow(_, _, _)
CashFlow(signals_by_symbol, orders, i) ==
    IF i > Len(orders) THEN Zero
    ELSE LET order == orders[i]
             value == IF order.symbol \in DOMAIN signals_by_symbol
                      THEN RMul(RInt(order.quantity), signals_by_symbol[order.symbol].price)
                      ELSE Zero
         IN  RAdd(IF order.instruction = "SELL" THEN value ELSE RNeg(value),
                  CashFlow(signals_by_symbol, orders, i + 1))

RECURSIVE ExitProceeds(_, _, _)
ExitProceeds(signals_by_symbol, orders, i) ==
    IF i > Len(orders) THEN Zero
    ELSE RAdd(IF orders[i].instruction = "SELL" /\ orders[i].symbol \in DOMAIN signals_by_symbol
              THEN RMul(RInt(orders[i].quantity), signals_by_symbol[orders[i].symbol].price)
              ELSE Zero,
              ExitProceeds(signals_by_symbol, orders, i + 1))

\* The premium of the contract an option order names, from the broker's chain.
PremiumOf(o, option_symbol) ==
    LET contracts == extract_call_contracts(Get(o.broker.chains, option_underlying(option_symbol), NoChain).contracts, 1, <<>>)
    IN  contracts[CHOOSE k \in 1..Len(contracts) : contracts[k].symbol = option_symbol].premium_per_contract

RECURSIVE PremiumsPaid(_, _, _)
PremiumsPaid(o, option_orders, i) ==
    IF i > Len(option_orders) THEN Zero
    ELSE RAdd(IF option_orders[i].instruction = "BUY_TO_OPEN" THEN PremiumOf(o, option_orders[i].symbol) ELSE Zero,
              PremiumsPaid(o, option_orders, i + 1))

BuyCount(orders) == Cardinality({i \in 1..Len(orders) : orders[i].instruction = "BUY"})

\* The step emits an equity BUY within the estimated cash of the state it
\* is taken in, or an option BUY_TO_OPEN within the cash left there.
BuyWithinCash ==
    /\ (ob.pc = "equity_entries" /\ Len(ob'.orders) = Len(ob.orders) + 1) =>
          /\ Last(ob'.orders).instruction = "BUY"
          /\ RLe(RMul(RInt(Last(ob'.orders).quantity), ob.signals_by_symbol[Last(ob'.orders).symbol].price),
                 ob.estimated_cash)
    /\ (ob.pc = "option_opens" /\ Len(ob'.option_orders) = Len(ob.option_orders) + 1) =>
          /\ Last(ob'.option_orders).instruction = "BUY_TO_OPEN"
          /\ RLe(PremiumOf(ob, Last(ob'.option_orders).symbol), ob.cash_left)

\* The estimate is the snapshot's cash plus the proceeds of the exits
\* emitted so far minus the entries emitted so far.
CashAccounting ==
    /\ Building => ob.estimated_cash = RAdd(ob.snapshot.cash, CashFlow(ob.signals_by_symbol, ob.orders, 1))
    /\ ob.pc = "option_opens" =>
          ob.cash_left = RSub(ob.estimated_cash, PremiumsPaid(ob, ob.option_orders, 1))

\* Two candidates, each needing at least 400 of notional to reach its target,
\* and a snapshot with 500 of cash.
TwoCandidatesNeeding400 ==
    /\ Building
    /\ ob.snapshot.cash = RInt(500)
    /\ Len(ob.candidate_signals) = 2
    /\ \A k \in 1..2 :
          LET signal == ob.candidate_signals[k]
              to_buy == ob.target_qty[signal.symbol] - PairsGet(ob.snapshot.equity_positions, signal.symbol, 0)
          IN  RLe(RInt(400), RMul(RInt(to_buy), signal.price))

\* C2 as written: every BUY and BUY_TO_OPEN is within the running estimated
\* cash at its emission, so cash = 500 and two candidates needing at least
\* 400 each give at most one BUY.
C2_BuysWithinCashOneOfTwo ==
    /\ [][BuyWithinCash]_vars
    /\ [](TwoCandidatesNeeding400 => BuyCount(ob.orders) <= 1)

\* C2 amended: every BUY and BUY_TO_OPEN is within the running estimated
\* cash at its emission, the estimate being the snapshot's cash plus the
\* estimated proceeds of earlier exits minus earlier entries; with cash = 500
\* and two candidates needing at least 400 each, at most one BUY is emitted
\* when no earlier exit has added proceeds to the estimate.
C2_BuysWithinEstimatedCash ==
    /\ [][BuyWithinCash]_vars
    /\ [](CashAccounting)
    /\ []((TwoCandidatesNeeding400 /\ ExitProceeds(ob.signals_by_symbol, ob.orders, 1) = Zero)
            => BuyCount(ob.orders) <= 1)

\* Cash 500, no exit, two candidates needing 400 each: the first is bought,
\* the second is not, and 100 is left.
C2_Witness ==
    /\ ob.pc = "done"
    /\ TwoCandidatesNeeding400
    /\ ExitProceeds(ob.signals_by_symbol, ob.orders, 1) = Zero
    /\ BuyCount(ob.orders) = 1
    /\ ob.estimated_cash = RInt(100)

\* C3: the order list _build_orders returns has at most max_orders_per_cycle
\* elements, on the plan path and on the rule path.
C3_OrdersWithinMax ==
    ob.pc = "done" => Len(ob.result) <= ob.config.max_orders_per_cycle

\* A plan that produced more orders than the cycle allows: the returned list
\* is cut to the maximum.
C3_Witness ==
    /\ ob.pc = "done"
    /\ ob.used_plan
    /\ Len(ob.orders) + Len(ob.option_orders) > ob.config.max_orders_per_cycle
    /\ Len(ob.result) = ob.config.max_orders_per_cycle

\* One step of the builder a state is in, and the builder run to the point
\* where its two lists are combined.
StepOf(o) ==
    CASE o.pc = "equity_exits" -> EquityExitOf(o)
      [] o.pc = "equity_entries" -> EquityEntryOf(o)
      [] o.pc = "options" -> BeginOptionOrdersOf(o)
      [] o.pc = "option_closes" -> OptionCloseOf(o)
      [] o.pc = "option_budget" -> BeginOptionOpensOf(o)
      [] o.pc = "option_opens" -> OptionOpenOf(o)
      [] OTHER -> o

RECURSIVE RunToCombine(_)
RunToCombine(o) == IF o.pc \in {"combine", "done", "idle", "start"} THEN o ELSE RunToCombine(StepOf(o))

\* What _build_orders_from_llm_plan returns for the inputs of a build, and
\* what the rule-based builders give for them.
PlanOrdersOf(o) ==
    LET built == RunToCombine(_build_orders_from_llm_plan(o))
    IN  Truncated(built.orders \o built.option_orders, o.config.max_orders_per_cycle)

RuleOrdersOf(o) ==
    LET built == RunToCombine(BuildFromRules(o))
    IN  Truncated(built.orders \o built.option_orders, o.config.max_orders_per_cycle)

\* A plan is supplied, LLM-first decisioning is enabled and the plan's
\* confidence is at least llm_first_min_confidence.
PlanAccepted ==
    /\ ob.llm_plan.present
    /\ ob.config.enable_llm_first_decisioning
    /\ RLe(ob.config.llm_first_min_confidence, ob.llm_plan.confidence)

\* C11: for a non-empty signal list, _build_orders returns the plan-restricted
\* orders with the flag True exactly when a plan is supplied, LLM-first
\* decisioning is enabled, the confidence is at least llm_first_min_confidence
\* and the plan-restricted construction yields an order; in every other case
\* it returns the orders of the rule-based construction over the whole signal
\* list with the flag False.
C11_PlanUsedIffItYieldsOrders ==
    (ob.pc = "done" /\ Len(ob.signals) > 0) =>
        /\ ob.used_plan <=> (PlanAccepted /\ Len(PlanOrdersOf(ob)) > 0)
        /\ ob.used_plan => ob.result = PlanOrdersOf(ob)
        /\ ~ob.used_plan => ob.result = RuleOrdersOf(ob)

\* An accepted plan that yields no order: the rule-based orders are returned
\* with the flag False.
C11_Witness ==
    /\ ob.pc = "done"
    /\ PlanAccepted
    /\ Len(PlanOrdersOf(ob)) = 0
    /\ ~ob.used_plan
    /\ Len(ob.result) > 0
    /\ ob.result = RuleOrdersOf(ob)

IsExit(order) == order.instruction \in {"SELL", "SELL_TO_CLOSE"}
IsEntry(order) == order.instruction \in {"BUY", "BUY_TO_OPEN"}

\* In a list of orders every exit or close precedes every entry.
ExitsFirst(orders) ==
    \A i, j \in 1..Len(orders) : (IsEntry(orders[i]) /\ IsExit(orders[j])) => j < i

\* The orders the builders produced before the cut to max_orders_per_cycle.
Built == ob.orders \o ob.option_orders

\* The cut dropped an order of the first kind and kept one of the second.
DroppedWhileKept(Dropped(_), Kept(_)) ==
    /\ \E k \in (Len(ob.result) + 1)..Len(Built) : Dropped(Built[k])
    /\ \E k \in 1..Len(ob.result) : Kept(ob.result[k])

\* C12 as written: in the returned list every exit or close precedes every
\* entry, so the cut to max_orders_per_cycle never drops an exit or close
\* while keeping an entry.
C12_ExitsPrecedeEntries ==
    ob.pc = "done" =>
        /\ ExitsFirst(ob.result)
        /\ ~DroppedWhileKept(IsExit, IsEntry)

IsEquity(order) == order.asset_type = "EQUITY"
IsOption(order) == order.asset_type = "OPTION"

\* C12 amended: the returned list is a prefix of the equity orders followed
\* by the option orders; within the equity orders every SELL precedes every
\* BUY and within the option orders every SELL_TO_CLOSE precedes every
\* BUY_TO_OPEN, so the cut never drops an equity SELL while keeping an equity
\* BUY nor an option close while keeping an option open.  An option close
\* follows the equity BUYs.
C12_ExitsPrecedeEntriesPerAssetType ==
    ob.pc = "done" =>
        /\ Len(ob.result) <= Len(Built)
        /\ ob.result = SubSeq(Built, 1, Len(ob.result))
        /\ \A i, j \in 1..Len(Built) : (IsEquity(Built[i]) /\ IsOption(Built[j])) => i < j
        /\ ExitsFirst(SelectSeq(Built, IsEquity))
        /\ ExitsFirst(SelectSeq(Built, IsOption))
        /\ ~DroppedWhileKept(LAMBDA order : IsEquity(order) /\ IsExit(order),
                             LAMBDA order : IsEquity(order) /\ IsEntry(order))
        /\ ~DroppedWhileKept(LAMBDA order : IsOption(order) /\ IsExit(order),
                             LAMBDA order : IsOption(order) /\ IsEntry(order))

\* The cut kept an equity BUY and dropped the option close that the builders
\* had put behind it.
C12_Witness ==
    /\ ob.pc = "done"
    /\ DroppedWhileKept(LAMBDA order : order.instruction = "SELL_TO_CLOSE",
                        LAMBDA order : order.instruction = "BUY")

\* Held equity positions that have no computed target and whose symbol has no
\* signal or a score <= signal_to_exit.
WeakHoldings ==
    {k \in 1..Len(ob.snapshot.equity_positions) :
        LET symbol == ob.snapshot.equity_positions[k][1]
            with_signal == {i \in 1..Len(ob.signals) : ob.signals[i].symbol = symbol}
        IN  /\ ob.snapshot.equity_positions[k][2] > 0
            /\ symbol \notin DOMAIN ob.target_qty
            /\ \A i \in with_signal : RLe(ob.signals[i].score, ob.config.signal_to_exit)}

\* The returned list sells the whole of position k.
SoldOut(k) ==
    \E n \in 1..Len(ob.result) :
        /\ ob.result[n].asset_type = "EQUITY"
        /\ ob.result[n].instruction = "SELL"
        /\ ob.result[n].symbol = ob.snapshot.equity_positions[k][1]
        /\ ob.result[n].quantity = ob.snapshot.equity_positions[k][2]

\* C13 as written: for every signal list, the empty one included, each such
\* position is sold out unless the returned list is full.
C13_WeakHoldingsSoldOut ==
    ob.pc = "done" =>
        \A k \in WeakHoldings : Len(ob.result) < ob.config.max_orders_per_cycle => SoldOut(k)

\* C13 amended: for every non-empty signal list each such position is sold
\* out unless the returned list is full; for the empty signal list no order
\* is returned, whatever is held.
C13_WeakHoldingsSoldOutGivenSignals ==
    ob.pc = "done" =>
        IF Len(ob.signals) = 0 THEN ob.result = <<>> /\ ~ob.used_plan
        ELSE \A k \in WeakHoldings : Len(ob.result) < ob.config.max_orders_per_cycle => SoldOut(k)

\* A held symbol without a signal (OLD) is sold out in a cycle that has
\* signals for other symbols.
C13_Witness ==
    /\ ob.pc = "done"
    /\ Len(ob.signals) > 0
    /\ \E k \in WeakHoldings :
          /\ \A i \in 1..Len(ob.signals) : ob.signals[i].symbol # ob.snapshot.equity_positions[k][1]
          /\ SoldOut(k)

\* The equity pass of the path taken is complete.
EquityPassDone ==
    /\ ob.pc \in {"options", "option_closes", "option_budget", "option_opens", "combine", "done"}
    /\ ob.path # "none"

RECURSIVE Traded(_, _, _, _)
Traded(orders, symbol, instruction, i) ==
    IF i > Len(orders) THEN 0
    ELSE (IF orders[i].symbol = symbol /\ orders[i].instruction = instruction THEN orders[i].quantity ELSE 0)
         + Traded(orders, symbol, instruction, i + 1)

\* min(max_position_fraction x equity, equity_capital_fraction x equity / candidate_count)
PositionBudget ==
    RMin(RMul(ob.config.max_position_fraction, ob.account_equity),
         RDiv(RMul(ob.config.equity_capital_fraction, ob.account_equity), RInt(Len(ob.candidate_signals))))

Held(symbol) == PairsGet(ob.snapshot.equity_positions, symbol, 0)

\* The holding of a symbol once the equity orders are applied to the snapshot.
HeldAfter(symbol) == Held(symbol) - Traded(ob.orders, symbol, "SELL", 1) + Traded(ob.orders, symbol, "BUY", 1)

Target(signal) == RFloor(RDiv(PositionBudget, signal.price))

\* The position is worth at most the budget and no BUY exceeds the target
\* minus the holding.
WithinBudget(signal) ==
    /\ RLe(RMul(RInt(HeldAfter(signal.symbol)), signal.price), PositionBudget)
    /\ Traded(ob.orders, signal.symbol, "BUY", 1) > 0 =>
          Traded(ob.orders, signal.symbol, "BUY", 1) <= Target(signal) - Held(signal.symbol)

\* C14 as written: each candidate's position is worth at most the budget, a
\* holding above the target is sold down to exactly the target, and a BUY
\* never exceeds the target minus the holding.
C14_PositionsWithinBudget ==
    EquityPassDone =>
        \A c \in 1..Len(ob.candidate_signals) :
            LET signal == ob.candidate_signals[c]
            IN  /\ WithinBudget(signal)
                /\ Held(signal.symbol) > Target(signal) => HeldAfter(signal.symbol) = Target(signal)

\* C14 amended: each candidate's position is worth at most the budget and a
\* BUY never exceeds the target minus the holding; a holding above the target
\* is sold down to exactly the target unless the symbol is on the plan's
\* forced-exit list, in which case the whole holding is sold.
C14_PositionsWithinBudgetOrForcedOut ==
    EquityPassDone =>
        \A c \in 1..Len(ob.candidate_signals) :
            LET signal == ob.candidate_signals[c]
            IN  /\ WithinBudget(signal)
                /\ Held(signal.symbol) > Target(signal) =>
                      HeldAfter(signal.symbol) = IF Upper(signal.symbol) \in ob.forced_exits THEN 0 ELSE Target(signal)

\* A holding above its target is sold down to the target, 5 shares to 2.
C14_Witness ==
    /\ ob.pc = "done"
    /\ ob.path # "none"
    /\ \E c \in 1..Len(ob.candidate_signals) :
          LET signal == ob.candidate_signals[c]
          IN  /\ Held(signal.symbol) = 5
              /\ Target(signal) = 2
              /\ HeldAfter(signal.symbol) = 2
              /\ Upper(signal.symbol) \notin ob.forced_exits

\* The option pass of the path taken is complete.
OptionPassDone == ob.pc \in {"combine", "done"} /\ ob.path # "none"

Opens == SelectSeq(ob.option_orders, LAMBDA order : order.instruction = "BUY_TO_OPEN")

HeldUnderlyings ==
    {option_underlying(ob.snapshot.option_positions[k][1]) :
        k \in {j \in 1..Len(ob.snapshot.option_positions) : ob.snapshot.option_positions[j][2] > 0}}

\* C15: the BUY_TO_OPEN orders number at most max_option_contracts minus the
\* contracts already open, each is for one contract, no two are for the same
\* underlying, none is for an underlying that has an option position or is on
\* the forced-exit list, their premiums sum to at most
\* min(option_capital_fraction x equity, estimated cash), and on the rule
\* path they are in descending order of score.
C15_OptionOpensBounded ==
    OptionPassDone =>
        /\ Len(Opens) <= ob.config.max_option_contracts - OpenContracts(ob.snapshot.option_positions, 1)
        /\ \A i \in 1..Len(Opens) :
              /\ Opens[i].quantity = 1
              /\ option_underlying(Opens[i].symbol) \notin HeldUnderlyings
              /\ Upper(option_underlying(Opens[i].symbol)) \notin ob.forced_exits
              /\ \A j \in 1..Len(Opens) :
                    i < j =>
                        /\ option_underlying(Opens[i].symbol) # option_underlying(Opens[j].symbol)
                        /\ ob.path = "rules" =>
                              RLe(ob.signals_by_symbol[option_underlying(Opens[j].symbol)].score,
                                  ob.signals_by_symbol[option_underlying(Opens[i].symbol)].score)
        /\ RLe(PremiumsPaid(ob, Opens, 1),
               RMin(RMul(ob.config.option_capital_fraction, ob.account_equity), ob.estimated_cash))

\* The strongest signal's underlying has an open contract: it is passed over
\* and the one slot left goes to the next underlying.
C15_Witness ==
    /\ ob.pc = "done"
    /\ ob.path = "rules"
    /\ ob.signals[1].symbol \in HeldUnderlyings
    /\ RLe(ob.config.option_signal_threshold, ob.signals[1].score)
    /\ Len(Opens) = 1
    /\ option_underlying(Opens[1].symbol) = ob.signals[2].symbol

(***************************************************************************)
(* Properties of the call ledger and of source learning.                   *)
(***************************************************************************)
\* The listed parts of the store are the same in two of its states.
SameLearning(s, after) ==
    /\ after.feature_penalties = s.feature_penalties
    /\ after.source_bias = s.source_bias

SameLedger(s, after) ==
    /\ after.open_calls = s.open_calls
    /\ after.journal = s.journal
    /\ after.state_file = s.state_file

\* The horizon has elapsed for a call created at created_at.
Elapsed(created_at) == now - created_at >= dl.cfg.evaluation_horizon

\* A step changes the ledger only by opening a call for an absent symbol
\* through maybe_record_call, with a score that reaches the lower of the two
\* thresholds, or by removing an open call through maybe_resolve_call, which
\* for a call with a parseable created_at needs the horizon to have elapsed.
LedgerMoves ==
    \A k \in DOMAIN dl.open_calls \cup DOMAIN dl'.open_calls :
        /\ (k \in DOMAIN dl.open_calls /\ k \in DOMAIN dl'.open_calls) => dl'.open_calls[k] = dl.open_calls[k]
        /\ (k \notin DOMAIN dl.open_calls /\ k \in DOMAIN dl'.open_calls) =>
              /\ dl'.result.op = "maybe_record_call"
              /\ Upper(dl'.result.symbol) = k
              /\ RLe(RMin(EntryThreshold, OptionThreshold), dl'.open_calls[k].signal_score)
        /\ (k \in DOMAIN dl.open_calls /\ k \notin DOMAIN dl'.open_calls) =>
              /\ dl'.result.op = "maybe_resolve_call"
              /\ Upper(dl'.result.symbol) = k
              /\ (dl.open_calls[k].created_at # NoTime => Elapsed(dl.open_calls[k].created_at))

\* maybe_resolve_call with no open call, with current_price <= 0 or before
\* the horizon returns None and changes nothing.
ResolveIsNoOp ==
    \A symbol \in ResolveSymbols, current_price \in ResolvePrices :
        LET key == Upper(symbol)
            after == maybe_resolve_call(dl, symbol, current_price, now)
            idle == IF RLe(current_price, Zero) \/ key \notin DOMAIN dl.open_calls THEN TRUE
                    ELSE dl.open_calls[key].created_at # NoTime /\ ~Elapsed(dl.open_calls[key].created_at)
        IN  idle => ~after.result.returned /\ SameLedger(dl, after) /\ SameLearning(dl, after)

\* C16: per symbol the ledger moves only from absent to open, by
\* maybe_record_call with a score >= min(entry_threshold, option_threshold),
\* and from open to absent, by maybe_resolve_call; a call with a parseable
\* created_at is never removed before the horizon has elapsed; and
\* maybe_resolve_call with no open call, with current_price <= 0 or before
\* the horizon returns None and leaves open_calls, feature_penalties,
\* source_bias and the journal unchanged.
C16_LedgerAbsentOpenAbsent ==
    /\ [][LedgerMoves]_vars
    /\ [](component = "dl" => ResolveIsNoOp)

\* maybe_resolve_call was called on the call opened in this run before its
\* horizon had elapsed: the call is still open and nothing was returned.
C16_Witness ==
    /\ dl.result.op = "maybe_resolve_call"
    /\ ~dl.result.returned
    /\ Len(dl.journal) = 1
    /\ dl.journal[1].event = "decision_call_opened"
    /\ Upper(dl.result.symbol) = dl.journal[1].symbol
    /\ dl.journal[1].symbol \in DOMAIN dl.open_calls
    /\ dl.open_calls[dl.journal[1].symbol].created_at # NoTime
    /\ ~Elapsed(dl.open_calls[dl.journal[1].symbol].created_at)

\* The open call of a symbol can be resolved at a price: the price is
\* positive, created_at is a timestamp, entry_price a positive number and the
\* horizon has elapsed.
Resolvable(symbol, current_price) ==
    /\ RLt(Zero, current_price)
    /\ Upper(symbol) \in DOMAIN dl.open_calls
    /\ dl.open_calls[Upper(symbol)].created_at # NoTime
    /\ IsNum(dl.open_calls[Upper(symbol)].entry_price)
    /\ RLt(Zero, dl.open_calls[Upper(symbol)].entry_price)
    /\ Elapsed(dl.open_calls[Upper(symbol)].created_at)

\* C17: a resolution classifies the realized return as bad_call when it is
\* <= the bad threshold, else good_call when it is >= the good threshold,
\* else neutral; whatever the outcome the call is removed and exactly one
\* decision_call_resolved event is appended to the journal; a neutral outcome
\* changes no feature penalty.
C17_ResolutionOutcome ==
    component = "dl" =>
        \A symbol \in ResolveSymbols, current_price \in ResolvePrices :
            Resolvable(symbol, current_price) =>
                LET after == maybe_resolve_call(dl, symbol, current_price, now)
                    realized_return == RSub(RDiv(current_price, dl.open_calls[Upper(symbol)].entry_price), One)
                    outcome == IF RLe(realized_return, dl.cfg.bad_call_return_threshold) THEN "bad_call"
                               ELSE IF RLe(dl.cfg.good_call_return_threshold, realized_return) THEN "good_call"
                               ELSE "neutral"
                IN  /\ after.result.returned
                    /\ Upper(symbol) \notin DOMAIN after.open_calls
                    /\ \A k \in DOMAIN dl.open_calls \ {Upper(symbol)} :
                          k \in DOMAIN after.open_calls /\ after.open_calls[k] = dl.open_calls[k]
                    /\ Len(after.journal) = Len(dl.journal) + 1
                    /\ SubSeq(after.journal, 1, Len(dl.journal)) = dl.journal
                    /\ LastEvent(after).event = "decision_call_resolved"
                    /\ LastEvent(after).symbol = Upper(symbol)
                    /\ LastEvent(after).outcome = outcome
                    /\ (outcome = "neutral" => after.feature_penalties = dl.feature_penalties)

\* A call was opened and then resolved with a return between the thresholds:
\* the outcome is neutral, the call is gone and no penalty was changed.
C17_Witness ==
    /\ Len(dl.journal) = 2
    /\ dl.journal[1].event = "decision_call_opened"
    /\ dl.journal[2].event = "decision_call_resolved"
    /\ dl.journal[2].outcome = "neutral"
    /\ dl.journal[2].penalty_update = EmptyDict
    /\ dl.journal[2].symbol \notin DOMAIN dl.open_calls
    /\ dl.result.returned

\* The open call of a symbol has no usable created_at, or no usable
\* entry_price.
BadTimestamp(key) == dl.open_calls[key].created_at = NoTime

BadEntryPrice(key) ==
    ~IsNum(dl.open_calls[key].entry_price) \/ RLe(dl.open_calls[key].entry_price, Zero)

\* The call is removed, the state is saved, nothing is returned and nothing
\* learned is changed.
Discarded(key, after) ==
    /\ key \notin DOMAIN after.open_calls
    /\ \A k \in DOMAIN dl.open_calls \ {key} : k \in DOMAIN after.open_calls /\ after.open_calls[k] = dl.open_calls[k]
    /\ after.state_file.valid
    /\ _load(after.cfg, after.state_file).open_calls = after.open_calls
    /\ ~after.result.returned
    /\ after.journal = dl.journal
    /\ SameLearning(dl, after)

\* C18 as written: a call with a bad created_at or a bad entry_price is
\* discarded by maybe_resolve_call at a positive price, whatever its age.
C18_BadCallsDiscardedAtAnyAge ==
    component = "dl" =>
        \A symbol \in ResolveSymbols, current_price \in ResolvePrices :
            (/\ RLt(Zero, current_price)
             /\ Upper(symbol) \in DOMAIN dl.open_calls
             /\ BadTimestamp(Upper(symbol)) \/ BadEntryPrice(Upper(symbol))) =>
                Discarded(Upper(symbol), maybe_resolve_call(dl, symbol, current_price, now))

\* C18 amended: a call with a bad created_at is discarded whatever its age;
\* a call with a parseable created_at and a bad entry_price is discarded once
\* the horizon has elapsed, and before that maybe_resolve_call returns None
\* and changes nothing.
C18_BadCallsDiscardedAfterHorizon ==
    component = "dl" =>
        \A symbol \in ResolveSymbols, current_price \in ResolvePrices :
            (RLt(Zero, current_price) /\ Upper(symbol) \in DOMAIN dl.open_calls) =>
                LET key == Upper(symbol)
                    after == maybe_resolve_call(dl, symbol, current_price, now)
                IN  /\ BadTimestamp(key) => Discarded(key, after)
                    /\ (~BadTimestamp(key) /\ BadEntryPrice(key)) =>
                          IF Elapsed(dl.open_calls[key].created_at) THEN Discarded(key, after)
                          ELSE ~after.result.returned /\ SameLedger(dl, after) /\ SameLearning(dl, after)

\* The store loaded from the hand-edited file has dropped the AMD call with
\* entry price 0 after its horizon, without a journal entry, and still holds
\* the NVDA call.
C18_Witness ==
    /\ dl.result.op = "maybe_resolve_call"
    /\ dl.result.symbol = "AMD"
    /\ ~dl.result.returned
    /\ "AMD" \notin DOMAIN dl.open_calls
    /\ "NVDA" \in DOMAIN dl.open_calls
    /\ "blog" \in DOMAIN dl.source_bias
    /\ Len(dl.journal) = 0
    /\ now >= 1
    /\ _load(dl.cfg, dl.state_file).open_calls = dl.open_calls

\* The step is a resolution of an open call.
CallResolved ==
    /\ Journaled
    /\ LastEvent(dl').event = "decision_call_resolved"

\* The source profile stored with the call the step resolves.
ResolvedProfile == _normalize_source_profile(dl.open_calls[LastEvent(dl').symbol].source_profile)

BiasOf(s, source_type) == Get(s.source_bias, source_type, Zero)

\* The sign of realized return x sentiment says which way the bias of a
\* source goes; strict says whether it has to move when it is off its bound.
BiasFollowsOutcome(strict) ==
    \A i \in 1..Len(ResolvedProfile) :
        LET source_type == ResolvedProfile[i][1]
            sentiment == ResolvedProfile[i][2].val.sentiment
            realized_return == LastEvent(dl').realized_return
            agrees == \/ RLt(Zero, realized_return) /\ RLt(Zero, sentiment)
                      \/ RLt(realized_return, Zero) /\ RLt(sentiment, Zero)
            disagrees == \/ RLt(Zero, realized_return) /\ RLt(sentiment, Zero)
                         \/ RLt(realized_return, Zero) /\ RLt(Zero, sentiment)
        IN  /\ agrees =>
                  /\ RLe(BiasOf(dl, source_type), BiasOf(dl', source_type))
                  /\ (strict /\ RLt(BiasOf(dl, source_type), dl.cfg.max_source_bias)) =>
                        RLt(BiasOf(dl, source_type), BiasOf(dl', source_type))
            /\ disagrees =>
                  /\ RLe(BiasOf(dl', source_type), BiasOf(dl, source_type))
                  /\ (strict /\ RLt(RNeg(dl.cfg.max_source_bias), BiasOf(dl, source_type))) =>
                        RLt(BiasOf(dl', source_type), BiasOf(dl, source_type))

\* C19 as written: on every resolution the bias of each source of the stored
\* profile moves with realized return x sentiment, strictly unless it is at
\* its bound.
C19_SourceBiasFollowsOutcome ==
    [][CallResolved => BiasFollowsOutcome(TRUE)]_vars

\* C19 amended: on every resolution the bias of each source of the stored
\* profile never moves against realized return x sentiment, and it moves
\* strictly, unless it is at its bound, when source-priority learning is
\* enabled and source_learning_rate is positive; with the learning switched
\* off no bias moves.
C19_SourceBiasFollowsOutcomeWhenLearning ==
    [][CallResolved =>
        /\ BiasFollowsOutcome(dl.cfg.enable_source_priority_learning /\ RLt(Zero, dl.cfg.source_learning_rate))
        /\ (~dl.cfg.enable_source_priority_learning => dl'.source_bias = dl.source_bias)]_vars

\* news (0.8, count 4) and social (-0.4, count 1) followed by a good_call:
\* the bias of news has gone up and the bias of social down.
C19_Witness ==
    /\ Len(dl.journal) = 2
    /\ dl.journal[1].event = "decision_call_opened"
    /\ dl.journal[2].event = "decision_call_resolved"
    /\ dl.journal[2].outcome = "good_call"
    /\ DOMAIN dl.journal[2].source_update = {"news", "social"}
    /\ RLt(Zero, dl.journal[2].source_update["news"])
    /\ RLt(dl.journal[2].source_update["social"], Zero)

\* What update_from_market_reaction stores as a symbol's observation.
Observed(after, key, current_price, source_profile) ==
    /\ key \in DOMAIN after.market_observations
    /\ after.market_observations[key].price = current_price
    /\ after.market_observations[key].source_profile = Dict(_normalize_source_profile(source_profile))
    /\ \A k \in DOMAIN dl.market_observations \ {key} :
          k \in DOMAIN after.market_observations /\ after.market_observations[k] = dl.market_observations[k]

\* The source bias after a reaction to a price, learned from the observation
\* stored before: the return against its price, the sources of its profile.
BiasFromPrior(key, current_price) ==
    LET prior == dl.market_observations[key]
    IN  IF IsNum(prior.price) /\ RLt(Zero, prior.price)
        THEN _update_source_bias(dl.cfg, dl.source_bias, _normalize_source_profile(prior.source_profile),
                                 RSub(RDiv(current_price, prior.price), One), dl.cfg.market_reaction_strength).bias
        ELSE dl.source_bias

\* update_from_market_reaction neither changes open_calls or
\* feature_penalties nor depends on them.
LedgerUntouched(symbol, current_price, source_profile) ==
    LET after == update_from_market_reaction(dl, symbol, current_price, source_profile, now)
        blank == update_from_market_reaction([dl EXCEPT !.open_calls = EmptyDict, !.feature_penalties = DefaultPenalties],
                                             symbol, current_price, source_profile, now)
    IN  /\ after.open_calls = dl.open_calls
        /\ after.feature_penalties = dl.feature_penalties
        /\ blank.source_bias = after.source_bias
        /\ blank.market_observations = after.market_observations
        /\ blank.journal = after.journal
        /\ blank.result = after.result

\* A reaction for a symbol: the first one stores the observation, returns
\* None and changes no bias; a later one with a positive price learns from
\* the stored observation and replaces it.
ReactionLearns(symbol, current_price, source_profile) ==
    LET key == Upper(Strip(symbol))
        after == update_from_market_reaction(dl, symbol, current_price, source_profile, now)
    IN  IF key \notin DOMAIN dl.market_observations
        THEN /\ ~after.result.returned
             /\ after.source_bias = dl.source_bias
             /\ Observed(after, key, current_price, source_profile)
        ELSE RLt(Zero, current_price) =>
                /\ after.source_bias = BiasFromPrior(key, current_price)
                /\ (after.result.returned <=> after.source_bias # dl.source_bias)
                /\ Observed(after, key, current_price, source_profile)

\* C20 as written: every first reaction stores, every later one with a
\* positive price learns and replaces, and no reaction touches the ledger or
\* the penalties.
C20_ReactionComparesWithPrevious ==
    component = "dl" =>
        \A symbol \in ReactionSymbols, current_price \in ReactionPrices, source_profile \in SourceProfiles :
            /\ ReactionLearns(symbol, current_price, source_profile)
            /\ LedgerUntouched(symbol, current_price, source_profile)

\* C20 amended: with source-priority learning enabled, a positive price and a
\* symbol that is not blank, the first reaction stores and a later one learns
\* and replaces; otherwise the reaction returns None and changes nothing; no
\* reaction touches the ledger or the penalties.
C20_ReactionComparesWithPreviousWhenLearning ==
    component = "dl" =>
        \A symbol \in ReactionSymbols, current_price \in ReactionPrices, source_profile \in SourceProfiles :
            LET after == update_from_market_reaction(dl, symbol, current_price, source_profile, now)
            IN  /\ IF /\ dl.cfg.enable_source_priority_learning
                      /\ RLt(Zero, current_price)
                      /\ Upper(Strip(symbol)) # ""
                   THEN ReactionLearns(symbol, current_price, source_profile)
                   ELSE /\ ~after.result.returned
                        /\ after.source_bias = dl.source_bias
                        /\ after.market_observations = dl.market_observations
                        /\ SameLedger(dl, after)
                /\ LedgerUntouched(symbol, current_price, source_profile)

\* A store that started without a file: the first reaction stored news and
\* social, and the second one has moved the bias of both and stored its own
\* observation.
C20_Witness ==
    /\ dl.result.op = "update_from_market_reaction"
    /\ dl.result.returned
    /\ Len(dl.journal) = 1
    /\ dl.journal[1].event = "source_market_reaction_updated"
    /\ DOMAIN dl.journal[1].source_update = {"news", "social"}
    /\ "blog" \notin DOMAIN dl.source_bias
    /\ DOMAIN dl.open_calls = {}
    /\ "AMD" \in DOMAIN dl.market_observations
    /\ dl.market_observations["AMD"].price = RInt(110)

(***************************************************************************)
(* Properties of the orders of a cycle that follows an external plan.      *)
(***************************************************************************)
\* _build_orders has returned the orders built from the plan.
PlanUsed == ob.pc = "done" /\ ob.used_plan

ListedIn(symbols, symbol) == \E k \in 1..Len(symbols) : symbols[k] = symbol

\* The symbol has a signal this cycle which, when support is required, has a
\* score >= llm_support_min_signal_score.
Supported(symbol) ==
    /\ symbol \in DOMAIN ob.signals_by_symbol
    /\ (ob.config.llm_first_require_signals_for_entries =>
          RLe(ob.config.llm_support_min_signal_score, ob.signals_by_symbol[symbol].score))

\* A BUY is for a supported symbol of the plan's equity-buy list, a
\* BUY_TO_OPEN for a supported underlying of its option-buy list.
EntryFromPlan(order) ==
    /\ order.instruction = "BUY" =>
          ListedIn(ob.llm_plan.equity_buy_symbols, order.symbol) /\ Supported(order.symbol)
    /\ order.instruction = "BUY_TO_OPEN" =>
          /\ ListedIn(ob.llm_plan.option_buy_symbols, option_underlying(order.symbol))
          /\ Supported(option_underlying(order.symbol))

OnExitList(symbol) == ListedIn(ob.llm_plan.exit_symbols, Upper(symbol))

Weak(symbol) ==
    symbol \in DOMAIN ob.signals_by_symbol /\ RLe(ob.signals_by_symbol[symbol].score, ob.config.signal_to_exit)

\* C26 as written: when the plan is used every BUY and BUY_TO_OPEN is for a
\* supported symbol of the plan's buy lists and every SELL and SELL_TO_CLOSE
\* is for a symbol or underlying of the plan's exit list.
C26_PlanOrdersOnPlanSymbols ==
    PlanUsed =>
        \A i \in 1..Len(ob.result) :
            /\ EntryFromPlan(ob.result[i])
            /\ ob.result[i].instruction = "SELL" => OnExitList(ob.result[i].symbol)
            /\ ob.result[i].instruction = "SELL_TO_CLOSE" => OnExitList(option_underlying(ob.result[i].symbol))

\* C26 amended: when the plan is used every BUY and BUY_TO_OPEN is for a
\* supported symbol of the plan's buy lists; a SELL is a forced exit of a
\* symbol of the exit list, a rebalance of a symbol of the equity-buy list,
\* or the exit of a holding that has no signal or a score <= signal_to_exit;
\* a SELL_TO_CLOSE is a forced exit of an underlying of the exit list or the
\* close of a contract whose underlying has a score <= signal_to_exit.
C26_PlanEntriesOnPlanSymbols ==
    PlanUsed =>
        \A i \in 1..Len(ob.result) :
            LET order == ob.result[i]
            IN  /\ EntryFromPlan(order)
                /\ order.instruction = "SELL" =>
                      \/ order.reason = "llm_forced_exit" /\ OnExitList(order.symbol)
                      \/ /\ order.reason = "rebalance_down"
                         /\ ListedIn(ob.llm_plan.equity_buy_symbols, order.symbol)
                         /\ ~OnExitList(order.symbol)
                      \/ /\ order.reason = "signal_exit"
                         /\ ~OnExitList(order.symbol)
                         /\ order.symbol \notin DOMAIN ob.signals_by_symbol \/ Weak(order.symbol)
                /\ order.instruction = "SELL_TO_CLOSE" =>
                      \/ order.reason = "llm_forced_exit" /\ OnExitList(option_underlying(order.symbol))
                      \/ /\ order.reason = "underlying_signal_exit"
                         /\ ~OnExitList(option_underlying(order.symbol))
                         /\ Weak(option_underlying(order.symbol))

\* The plan was used and the returned orders hold a BUY of a plan symbol, a
\* forced exit, and the SELL of a holding that the plan does not name.
C26_Witness ==
    /\ PlanUsed
    /\ \E i \in 1..Len(ob.result) : ob.result[i].instruction = "BUY"
    /\ \E i \in 1..Len(ob.result) : ob.result[i].reason = "llm_forced_exit"
    /\ \E i \in 1..Len(ob.result) :
          /\ ob.result[i].instruction = "SELL"
          /\ ~OnExitList(ob.result[i].symbol)
          /\ ~ListedIn(ob.llm_plan.equity_buy_symbols, ob.result[i].symbol)

(***************************************************************************)
(* Properties of the equity orders.                                        *)
(***************************************************************************)
\* quantity x signal price of an equity order whose symbol has a signal.
Notional(order) == RMul(RInt(order.quantity), ob.signals_by_symbol[order.symbol].price)

RuleExit(order) == order.instruction = "SELL" /\ order.reason \in {"rebalance_down", "signal_exit"}

\* An exit whose notional is below min_order_notional.
SmallExit(order) ==
    /\ order.symbol \in DOMAIN ob.signals_by_symbol
    /\ RLt(Notional(order), ob.config.min_order_notional)

\* Every holding on the forced-exit list is sold whole.
ForcedExitsSellAll ==
    \A k \in 1..Len(ob.snapshot.equity_positions) :
        LET symbol == ob.snapshot.equity_positions[k][1]
            quantity == ob.snapshot.equity_positions[k][2]
        IN  (quantity > 0 /\ Upper(symbol) \in ob.forced_exits) =>
                \E i \in 1..Len(ob.orders) :
                    ob.orders[i] = TradeOrder("EQUITY", symbol, "SELL", quantity, NotNum, "llm_forced_exit")

\* C28 as written: a rebalance_down or signal_exit SELL has a notional of at
\* least min_order_notional, and a forced exit sells the whole holding
\* whatever its notional.
C28_RuleExitsAboveMinimum ==
    EquityPassDone =>
        /\ \A i \in 1..Len(ob.orders) : RuleExit(ob.orders[i]) => ~SmallExit(ob.orders[i])
        /\ ForcedExitsSellAll

\* C28 amended: min_order_notional bounds the BUY orders only.  Every
\* holding that has no target and no signal or a score <= signal_to_exit is
\* sold whole, every holding above its target is sold down to it, and every
\* holding on the forced-exit list is sold whole, whatever the notional.
C28_MinimumBoundsEntriesOnly ==
    EquityPassDone =>
        /\ \A i \in 1..Len(ob.orders) :
              ob.orders[i].instruction = "BUY" => RLe(ob.config.min_order_notional, Notional(ob.orders[i]))
        /\ ForcedExitsSellAll
        /\ \A k \in 1..Len(ob.snapshot.equity_positions) :
              LET symbol == ob.snapshot.equity_positions[k][1]
                  quantity == ob.snapshot.equity_positions[k][2]
              IN  (quantity > 0 /\ Upper(symbol) \notin ob.forced_exits) =>
                      IF symbol \in DOMAIN ob.target_qty
                      THEN quantity > ob.target_qty[symbol] =>
                              \E i \in 1..Len(ob.orders) :
                                  ob.orders[i] = TradeOrder("EQUITY", symbol, "SELL", quantity - ob.target_qty[symbol],
                                                            NotNum, "rebalance_down")
                      ELSE (symbol \notin DOMAIN ob.signals_by_symbol \/ Weak(symbol)) =>
                              \E i \in 1..Len(ob.orders) :
                                  ob.orders[i] = TradeOrder("EQUITY", symbol, "SELL", quantity, NotNum, "signal_exit")

\* The equity orders hold a signal_exit and a rebalance_down, and a forced
\* exit or a rule-based exit among them is below min_order_notional.
C28_Witness ==
    /\ EquityPassDone
    /\ \E i \in 1..Len(ob.orders) : RuleExit(ob.orders[i]) /\ SmallExit(ob.orders[i])
    /\ \E i \in 1..Len(ob.orders) : ob.orders[i].reason = "rebalance_down"

\* C29: no symbol has both a SELL and a BUY among the equity orders of a
\* cycle, on the rule-based path and on the external-plan path.
C29_NoSymbolSoldAndBought ==
    EquityPassDone =>
        \A i, j \in 1..Len(ob.orders) :
            ~(/\ ob.orders[i].instruction = "SELL"
              /\ ob.orders[j].instruction = "BUY"
              /\ ob.orders[i].symbol = ob.orders[j].symbol)

\* The same on the rule-based path alone.
RulePathNeverSellsAndBuys ==
    (EquityPassDone /\ ob.path = "rules") =>
        \A i, j \in 1..Len(ob.orders) :
            ~(/\ ob.orders[i].instruction = "SELL"
              /\ ob.orders[j].instruction = "BUY"
              /\ ob.orders[i].symbol = ob.orders[j].symbol)

(***************************************************************************)
(* Properties of the journal's explanations.                               *)
(***************************************************************************)
ResolvedEvents == {i \in 1..Len(dl.journal) : dl.journal[i].event = "decision_call_resolved"}

\* None of the top-2 driver tags and no high_volatility_regime tag applies.
NothingMatches(event) ==
    LET top == call_rationale(event.feature_profile, 2)
    IN  /\ \A i \in 1..Len(top) : top[i].driver = "trend_20d"
        /\ RLe(Get(event.feature_profile, "volatility_risk", Zero), R(9, 100))

\* C27: every decision_call_resolved event with outcome bad_call carries a
\* non-empty why_bad list, which is [general_prediction_error] when nothing
\* matches, and every other resolved event an empty one, for every
\* configured bad_call threshold.
C27_BadCallsExplained ==
    component = "dl" =>
        \A i \in ResolvedEvents :
            IF dl.journal[i].outcome = "bad_call"
            THEN /\ Len(dl.journal[i].why_bad) > 0
                 /\ NothingMatches(dl.journal[i]) => dl.journal[i].why_bad = <<"general_prediction_error">>
            ELSE dl.journal[i].why_bad = <<>>

\* The same for the bad calls that lost money.
LosingBadCallsExplained ==
    component = "dl" =>
        \A i \in ResolvedEvents :
            IF dl.journal[i].outcome = "bad_call" /\ RLt(dl.journal[i].realized_return, Zero)
            THEN /\ Len(dl.journal[i].why_bad) > 0
                 /\ NothingMatches(dl.journal[i]) => dl.journal[i].why_bad = <<"general_prediction_error">>
            ELSE dl.journal[i].why_bad = <<>>

(***************************************************************************)
(* Signal computation (strategy/signals.py)                                *)
(*                                                                         *)
(* closes is a list of positive prices, as SchwabBroker.get_history        *)
(* returns it.  A standard deviation is kept as the exact root of its      *)
(* square.                                                                 *)
(***************************************************************************)
\* closes[-k] of a list with at least k elements.
FromEnd(closes, k) == closes[Len(closes) - k + 1]

\* closes[-k:]
LastN(closes, k) == IF Len(closes) <= k THEN closes ELSE SubSeq(closes, Len(closes) - k + 1, Len(closes))

\* The sum of values[lo..hi]; exact addition is associative, so the halves may be added in any order.
RECURSIVE RSumRange(_, _, _)
RSumRange(values, lo, hi) ==
    IF lo > hi THEN Zero
    ELSE IF lo = hi THEN values[lo]
    ELSE LET mid == (lo + hi) \div 2
         IN  RAdd(RSumRange(values, lo, mid), RSumRange(values, mid + 1, hi))

\* sum(values)
RSum(values) == RSumRange(values, 1, Len(values))

\* statistics.fmean
fmean(values) == RDiv(RSum(values), RInt(Len(values)))

\* _daily_returns, lines 8-18
_daily_returns(closes) ==
    LET kept == SelectSeq([i \in 1..(Len(closes) - 1) |-> i + 1],
                          LAMBDA idx : ~RLe(closes[idx - 1], Zero))
    IN  [j \in 1..Len(kept) |-> RSub(RDiv(closes[kept[j]], closes[kept[j] - 1]), One)]

\* statistics.stdev squared: the sample variance.
Variance(values) ==
    LET mean == fmean(values)
        squares == [i \in 1..Len(values) |-> RMul(RSub(values[i], mean), RSub(values[i], mean))]
    IN  RDiv(RSum(squares), RInt(Len(values) - 1))

\* The non-negative real whose square is x.
Root(x) == [square |-> x]

SqrtBound == 20

\* min(root, 1.0): 1 when the square is at least 1, else the rational root.
MinWithOne(root) ==
    IF RLe(One, root.square) THEN One
    ELSE CHOOSE r \in {R(a, b) : a \in 0..SqrtBound, b \in 1..SqrtBound} : RMul(r, r) = root.square

\* _annualized_volatility, lines 21-25: stdev(returns) * 252 ** 0.5
_annualized_volatility(closes, window) ==
    LET returns == _daily_returns(LastN(closes, window + 1))
    IN  IF Len(returns) < 2 THEN Root(Zero)
        ELSE Root(RMul(Variance(returns), RInt(252)))

NoSignal == [symbol |-> "", none |-> TRUE]

ReturnsNoneBelowZero(price, closes) == RLt(price, Zero) \/ Len(closes) < 25

\* compute_signal_with_ai, lines 54-55
ReturnsNone(price, closes) == RLe(price, Zero) \/ Len(closes) < 25

\* compute_signal_with_ai, lines 42-86
compute_signal_with_ai(symbol, price, closes, news_score, ai_short_term_score, ai_long_term_score, ai_confidence, ai_short_term_weight, ai_long_term_weight) ==
    LET momentum_20d == RSub(RDiv(FromEnd(closes, 1), FromEnd(closes, 21)), One)
        momentum_5d == RSub(RDiv(FromEnd(closes, 1), FromEnd(closes, 6)), One)
        sma_20 == fmean(LastN(closes, 20))
        trend_20d == IF RLt(Zero, sma_20) THEN RSub(RDiv(FromEnd(closes, 1), sma_20), One) ELSE Zero
        volatility_20d == _annualized_volatility(closes, 20)
        score == RSub(RAdd(RAdd(RAdd(RAdd(RAdd(RMul(R(45, 100), momentum_20d),
                                                RMul(R(20, 100), momentum_5d)),
                                           RMul(R(20, 100), trend_20d)),
                                      RMul(R(25, 100), news_score)),
                                 RMul(ai_short_term_weight, ai_short_term_score)),
                            RMul(ai_long_term_weight, ai_long_term_score)),
                      RMul(R(15, 100), MinWithOne(volatility_20d)))
    IN  IF ReturnsNone(price, closes) THEN NoSignal
        ELSE [ symbol |-> symbol, none |-> FALSE, price |-> price, momentum_20d |-> momentum_20d,
               momentum_5d |-> momentum_5d, trend_20d |-> trend_20d, volatility_20d |-> volatility_20d,
               news_score |-> news_score, score |-> score, ai_short_term_score |-> ai_short_term_score,
               ai_long_term_score |-> ai_long_term_score, ai_confidence |-> ai_confidence ]

\* compute_signal, lines 28-39
compute_signal(symbol, price, closes, news_score) ==
    compute_signal_with_ai(symbol, price, closes, news_score, Zero, Zero, Zero, Zero, Zero)

(***************************************************************************)
(* Sentiment aggregation (data/news.py)                                    *)
(*                                                                         *)
(* A title is the list of its lower-cased words (re.findall), an item its  *)
(* source_type (None is "") and its title.                                 *)
(***************************************************************************)
POSITIVE_WORDS ==
    {"beats", "beat", "growth", "surge", "record", "strong", "upgrade", "bullish", "breakthrough",
     "expands", "partnership", "profit", "outperform", "demand", "upside"}

NEGATIVE_WORDS ==
    {"miss", "misses", "weak", "downgrade", "lawsuit", "probe", "delay", "cuts", "cut", "layoffs",
     "decline", "bearish", "risk", "warning", "downside"}

NewsItem(source_type, title) == [source_type |-> source_type, title |-> title]

\* _headline_score, lines 119-130
_headline_score(words) ==
    LET positive == Cardinality({i \in 1..Len(words) : words[i] \in POSITIVE_WORDS})
        negative == Cardinality({i \in 1..Len(words) : words[i] \in NEGATIVE_WORDS})
    IN  IF Len(words) = 0 THEN Zero
        ELSE IF positive = 0 /\ negative = 0 THEN Zero
        ELSE R(positive - negative, positive + negative)

\* Line 153: (item.source_type or "unknown").strip().lower() or "unknown"
SourceTypeOf(item) ==
    LET key == Lower(Strip(item.source_type))
    IN  IF key = "" THEN "unknown" ELSE key

MultiplierRaw(source_multipliers, source_type) ==
    IF ~IsDict(source_multipliers) THEN One ELSE Get(source_multipliers.val, source_type, One)

\* Lines 166-169: 1.0 without a map, else the map's value within [0.10, 3.0].
Multiplier(source_multipliers, source_type) ==
    IF ~IsDict(source_multipliers) THEN One
    ELSE RMax(R(10, 100), RMin(Get(source_multipliers.val, source_type, One), RInt(3)))

\* Lines 152-156
ItemsOf(items, source_type) == SelectSeq(items, LAMBDA item : SourceTypeOf(item) = source_type)

SourceTypes(items) == {SourceTypeOf(items[i]) : i \in 1..Len(items)}

\* Lines 163-164: the clamped mean of the headline scores of a source.
SentimentOf(items, source_type) ==
    LET mine == ItemsOf(items, source_type)
        scores == [i \in 1..Len(mine) |-> _headline_score(mine[i].title)]
    IN  _clamp(fmean(scores), RInt(-1), One)

RECURSIVE SumOver(_, _)
SumOver(f, keys) ==
    IF keys = {} THEN Zero
    ELSE LET k == CHOOSE x \in keys : TRUE
         IN  RAdd(f[k], SumOver(f, keys \ {k}))

\* Lines 165-171: weight = count * multiplier, summed over the sources.
Weights(items, source_multipliers) ==
    [source_type \in SourceTypes(items) |->
        RMul(RInt(Len(ItemsOf(items, source_type))), Multiplier(source_multipliers, source_type))]

TotalWeight(items, source_multipliers) ==
    SumOver(Weights(items, source_multipliers), SourceTypes(items))

\* source_weighted_sentiment, lines 142-178
source_weighted_sentiment(items, source_multipliers) ==
    LET sentiment_by_source == [source_type \in SourceTypes(items) |-> SentimentOf(items, source_type)]
        counts_by_source == [source_type \in SourceTypes(items) |-> Len(ItemsOf(items, source_type))]
        weights == Weights(items, source_multipliers)
        weighted_sum == SumOver([k \in SourceTypes(items) |-> RMul(sentiment_by_source[k], weights[k])],
                                SourceTypes(items))
        total_weight == TotalWeight(items, source_multipliers)
    IN  IF Len(items) = 0 THEN <<Zero, EmptyDict, EmptyDict>>
        ELSE IF RLe(total_weight, Zero) THEN <<Zero, sentiment_by_source, counts_by_source>>
        ELSE <<_clamp(RDiv(weighted_sum, total_weight), RInt(-1), One), sentiment_by_source, counts_by_source>>

(***************************************************************************)
(* Inputs of the pure functions.                                           *)
(***************************************************************************)
Flat(n, value) == [i \in 1..n |-> RInt(value)]

\* 100, 200, 100, ...: a series whose annualized volatility is above 1.
Swinging(n) == [i \in 1..n |-> IF i % 2 = 1 THEN RInt(100) ELSE RInt(200)]

CloseSeries ==
    {<<>>, Flat(10, 100), Flat(24, 100), Swinging(24), Flat(25, 100), Swinging(25), Flat(30, 130), Swinging(30)}

SignalPrices == {RInt(-1), Zero, R(1, 100), RInt(130)}

NewsScores == {R(-1, 2), R(2, 5)}

\* ai_short_term_score, ai_long_term_score, ai_confidence and the two
\* weights: none, and the default weights of config.py lines 231-232.
AiInputs == {<<Zero, Zero, Zero, Zero, Zero>>, <<R(2, 5), R(-1, 4), R(4, 5), R(10, 100), R(15, 100)>>}

TitleUp == <<"nvidia", "beats", "record", "estimates">>
TitleDown == <<"probe", "and", "delay", "despite", "growth">>
TitlePlain == <<"nvidia", "ships", "chips">>

ItemLists ==
    { <<>>,
      <<NewsItem("news", TitleUp)>>,
      <<NewsItem("news", <<>>)>>,
      <<NewsItem(" News ", TitleDown), NewsItem("SOCIAL", TitleDown)>>,
      <<NewsItem("news", TitleUp), NewsItem("", TitleDown), NewsItem("news", TitlePlain)>>,
      <<NewsItem("social", TitleUp), NewsItem("news", TitleDown), NewsItem("social", TitleUp)>> }

\* source_multipliers: None, and maps with values inside and outside
\* [0.10, 3.0].
MultiplierMaps ==
    { NotDict,
      Dict([k \in {"news", "social"} |-> IF k = "news" THEN Zero ELSE RInt(5)]),
      Dict([k \in {"news", "social", "unknown"} |-> Zero]),
      Dict([k \in {"news"} |-> R(3, 2)]),
      Dict([k \in {"news", "unknown"} |-> IF k = "news" THEN RInt(-1) ELSE R(1, 20)]) }

(***************************************************************************)
(* The pure functions as a state machine: a call and its return.           *)
(***************************************************************************)
SignalCall(op, price, closes, news_score, ai) ==
    [pc |-> "call", op |-> op, price |-> price, closes |-> closes, news_score |-> news_score, ai |-> ai]

SentimentCall(items, source_multipliers) ==
    [pc |-> "call", op |-> "source_weighted_sentiment", items |-> items, source_multipliers |-> source_multipliers]

InitFunctions ==
    /\ component = "fn"
    /\ now = 0
    /\ dl = DlIdle
    /\ mem = MemIdle
    /\ ob = ObIdle
    /\ cc = CcIdle
    /\ boot = BootIdle
    /\ cy = CyIdle
    /\ fn \in {SignalCall("compute_signal_with_ai", price, closes, news_score, ai) :
                  price \in SignalPrices, closes \in CloseSeries, news_score \in NewsScores, ai \in AiInputs}
              \cup {SignalCall("compute_signal", price, closes, news_score, <<Zero, Zero, Zero, Zero, Zero>>) :
                  price \in SignalPrices, closes \in CloseSeries, news_score \in NewsScores}
              \cup {SentimentCall(items, source_multipliers) :
                  items \in ItemLists, source_multipliers \in MultiplierMaps}

Return(result) == [pc |-> "returned", call |-> fn, result |-> result]

ComputeSignalWithAi ==
    /\ component = "fn"
    /\ fn.pc = "call"
    /\ fn.op = "compute_signal_with_ai"
    /\ fn' = Return(compute_signal_with_ai("NVDA", fn.price, fn.closes, fn.news_score,
                                           fn.ai[1], fn.ai[2], fn.ai[3], fn.ai[4], fn.ai[5]))
    /\ UNCHANGED <<component, now, dl, mem, ob, cc, boot, cy>>

ComputeSignal ==
    /\ component = "fn"
    /\ fn.pc = "call"
    /\ fn.op = "compute_signal"
    /\ fn' = Return(compute_signal("NVDA", fn.price, fn.closes, fn.news_score))
    /\ UNCHANGED <<component, now, dl, mem, ob, cc, boot, cy>>

SourceWeightedSentiment ==
    /\ component = "fn"
    /\ fn.pc = "call"
    /\ fn.op = "source_weighted_sentiment"
    /\ fn' = Return(source_weighted_sentiment(fn.items, fn.source_multipliers))
    /\ UNCHANGED <<component, now, dl, mem, ob, cc, boot, cy>>

NextFunctions == ComputeSignalWithAi \/ ComputeSignal \/ SourceWeightedSentiment

SpecFunctions == InitFunctions /\ [][NextFunctions]_vars

(***************************************************************************)
(* Properties of the pure functions.                                       *)
(***************************************************************************)
SignalReturned == fn.pc = "returned" /\ fn.call.op \in {"compute_signal_with_ai", "compute_signal"}

SentimentReturned == fn.pc = "returned" /\ fn.call.op = "source_weighted_sentiment"

\* C23: source_weighted_sentiment returns (0.0, {}, {}) when the item list is
\* empty or the total count x multiplier weight is zero, and the aggregate and
\* every per-source sentiment lie in [-1, 1].
C23_SentimentEmptyAndBounded ==
    SentimentReturned =>
        /\ (\/ Len(fn.call.items) = 0
            \/ RLe(TotalWeight(fn.call.items, fn.call.source_multipliers), Zero)) =>
              fn.result = <<Zero, EmptyDict, EmptyDict>>
        /\ InUnit(fn.result[1])
        /\ \A source_type \in DOMAIN fn.result[2] : InUnit(fn.result[2][source_type])

\* Three items of two sources were aggregated under a map whose values lie
\* outside [0.10, 3.0]: the aggregate is strictly between the two sources'
\* sentiments.
C23_Witness ==
    /\ SentimentReturned
    /\ Len(fn.call.items) = 3
    /\ IsDict(fn.call.source_multipliers)
    /\ DOMAIN fn.result[2] = {"news", "social"}
    /\ RLt(fn.result[2]["news"], fn.result[1])
    /\ RLt(fn.result[1], fn.result[2]["social"])

(***************************************************************************)
(* Dashboard control center (control/center.py).  A configuration value    *)
(* and a raw payload value are tagged with their Python type.              *)
(***************************************************************************)
BoolV(b) == [t |-> "bool", b |-> b, i |-> 0, s |-> ""]
IntV(i) == [t |-> "int", b |-> FALSE, i |-> i, s |-> ""]
StrV(s) == [t |-> "str", b |-> FALSE, i |-> 0, s |-> s]

\* center.py:14-24
_BLOCKED_KEYS ==
    {"restrict_fund_transfers", "ai_api_key", "fmp_api_key", "finnhub_api_key", "schwab_api_key",
     "schwab_app_secret", "schwab_callback_url", "schwab_token_path", "schwab_account_number"}

LiveTradingKeys == {"live_trading", "live_trading_requested", "live_trading_greenlight"}

\* The BotConfig fields under study with their defaults (config.py:134-136, 289).
ControlConfig ==
    [key \in LiveTradingKeys \cup {"restrict_fund_transfers", "control_max_actions_per_cycle"} |->
        CASE key \in LiveTradingKeys -> BoolV(FALSE)
          [] key = "restrict_fund_transfers" -> BoolV(TRUE)
          [] OTHER -> IntV(20)]

TrueWords == {"1", "true", "yes", "y", "on"}
FalseWords == {"0", "false", "no", "n", "off"}

\* int(raw_value) for the raw values in use; NotNum stands for ValueError.
IntOf(raw_value) ==
    CASE raw_value.t = "int" -> IntV(raw_value.i)
      [] raw_value.t = "bool" -> IntV(IF raw_value.b THEN 1 ELSE 0)
      [] raw_value.t = "str" /\ raw_value.s = "1" -> IntV(1)
      [] raw_value.t = "str" /\ raw_value.s = "0" -> IntV(0)
      [] OTHER -> NotNum

\* _coerce_value, lines 326-367
_coerce_value(config, key, raw_value) ==
    IF key \notin DOMAIN config THEN [ok |-> FALSE, value |-> NotNum, error |-> "unknown_key"]
    ELSE LET current == config[key]
         IN  IF current.t = "bool"
             THEN IF raw_value.t = "bool" THEN [ok |-> TRUE, value |-> raw_value, error |-> ""]
                  ELSE IF raw_value.t = "str" /\ Lower(Strip(raw_value.s)) \in TrueWords
                  THEN [ok |-> TRUE, value |-> BoolV(TRUE), error |-> ""]
                  ELSE IF raw_value.t = "str" /\ Lower(Strip(raw_value.s)) \in FalseWords
                  THEN [ok |-> TRUE, value |-> BoolV(FALSE), error |-> ""]
                  ELSE [ok |-> FALSE, value |-> NotNum, error |-> "invalid_bool"]
             ELSE IF current.t = "int"
             THEN IF IntOf(raw_value) = NotNum
                  THEN [ok |-> FALSE, value |-> NotNum, error |-> "invalid_int"]
                  ELSE [ok |-> TRUE, value |-> IntOf(raw_value), error |-> ""]
             ELSE [ok |-> TRUE, value |-> raw_value, error |-> ""]

Rejected(center, message) ==
    [center |-> center, status |-> "rejected", message |-> message, changes |-> <<>>]

\* center.py:382: if key in _BLOCKED_KEYS
IsBlocked(key) == key \in _BLOCKED_KEYS

\* _apply_config_value, lines 369-416: the center afterwards and the response.
_apply_config_value(center, key, raw_value, persist) ==
    LET coerced == _coerce_value(center.config, key, raw_value)
        before == center.config[key]
        change == <<[key |-> key, old |-> before, new |-> coerced.value]>>
    IN  IF key = "" THEN Rejected(center, "missing_key")
        ELSE IF IsBlocked(key) THEN Rejected(center, "protected")
        ELSE IF ~coerced.ok THEN Rejected(center, coerced.error)
        ELSE IF before = coerced.value
        THEN [center |-> center, status |-> "applied", message |-> "no_change", changes |-> change]
        ELSE [center |-> [center EXCEPT !.config = Put(center.config, key, coerced.value),
                                        !.overrides = IF persist THEN Put(center.overrides, key, coerced.value)
                                                      ELSE center.overrides],
              status |-> "applied", message |-> "updated", changes |-> change]

\* _process_one, lines 256-324: the center afterwards and the result row.
_process_one(center, action) ==
    LET action_type == Lower(Strip(action.action_type))
        applied == _apply_config_value(center, Strip(action.payload.key), action.payload.value, TRUE)
        base == [action_id |-> action.action_id, action_type |-> action_type, key |-> action.payload.key,
                 status |-> "rejected", message |-> "unsupported", restart_recommended |-> FALSE,
                 changes |-> <<>>]
    IN  IF action_type = "set_config"
        THEN [center |-> applied.center,
              result |-> [base EXCEPT !.status = applied.status, !.message = applied.message,
                                      !.changes = applied.changes]]
        ELSE IF action_type = "restart_runtime"
        THEN [center |-> center,
              result |-> [base EXCEPT !.status = "applied", !.message = "restart_requested",
                                      !.restart_recommended = TRUE]]
        ELSE [center |-> center, result |-> base]

\* process_pending_actions, lines 221-254: the loop over the queued actions
\* from position idx, with the limit read before the loop.
RECURSIVE ProcessQueued(_, _, _, _)
ProcessQueued(center, idx, processed, limit) ==
    IF idx > Len(center.actions) \/ processed >= limit THEN center
    ELSE IF center.actions[idx].action_id \in center.processed_ids
    THEN ProcessQueued(center, idx + 1, processed, limit)
    ELSE LET one == _process_one(center, center.actions[idx])
             after == [one.center EXCEPT !.results = Append(one.center.results, one.result),
                                         !.processed_ids = one.center.processed_ids \cup {one.result.action_id}]
         IN  ProcessQueued(after, idx + 1, processed + 1, limit)

process_pending_actions(center) ==
    LET limit == IF center.config["control_max_actions_per_cycle"].i > 1
                 THEN center.config["control_max_actions_per_cycle"].i ELSE 1
    IN  ProcessQueued(center, 1, 0, limit)

\* list_configurable_keys, lines 154-185: the keys of the rows.
list_configurable_keys(center) == {key \in DOMAIN center.config : key \notin _BLOCKED_KEYS}

\* __init__ and apply_saved_overrides, lines 91-148, of a center built on a
\* fresh configuration: every saved override is applied without persisting.
apply_saved_overrides(overrides) ==
    [key \in DOMAIN ControlConfig |->
        IF key \in DOMAIN overrides /\ ~IsBlocked(key) /\ _coerce_value(ControlConfig, key, overrides[key]).ok
        THEN _coerce_value(ControlConfig, key, overrides[key]).value
        ELSE ControlConfig[key]]

(***************************************************************************)
(* The control center as a state machine: the dashboard submits actions,   *)
(* the main loop processes them, and the process may be restarted.         *)
(***************************************************************************)
MaxActions == 3

PayloadKeys == LiveTradingKeys \cup {"restrict_fund_transfers", "control_max_actions_per_cycle", "", "nope"}
PayloadValues == {BoolV(TRUE), StrV("off"), StrV("1"), StrV("maybe")}

SubmittedActions ==
    {[action_type |-> "set_config", key |-> key, value |-> value] : key \in PayloadKeys, value \in PayloadValues}
    \cup {[action_type |-> "SET_CONFIG", key |-> "live_trading", value |-> StrV("1")],
          [action_type |-> "restart_runtime", key |-> "", value |-> StrV("")],
          [action_type |-> "noop", key |-> "", value |-> StrV("")]}

InitControl ==
    /\ component = "cc"
    /\ now = 0
    /\ dl = DlIdle /\ mem = MemIdle /\ ob = ObIdle
    /\ fn = FnIdle /\ boot = BootIdle /\ cy = CyIdle
    /\ cc = [pc |-> "ready", config |-> ControlConfig, actions |-> <<>>, processed_ids |-> {},
             results |-> <<>>, overrides |-> EmptyDict, listed |-> {}, restarts |-> 0]

\* submit_action, lines 187-205
SubmitAction ==
    /\ component = "cc"
    /\ Len(cc.actions) < MaxActions
    /\ \E submitted \in SubmittedActions :
          cc' = [cc EXCEPT !.actions = Append(cc.actions,
                    [action_id |-> Len(cc.actions) + 1,
                     action_type |-> Lower(Strip(submitted.action_type)),
                     payload |-> [key |-> submitted.key, value |-> submitted.value]])]
    /\ UNCHANGED <<component, now, dl, mem, ob, fn, boot, cy>>

\* process_pending_actions, lines 221-254
ProcessPendingActions ==
    /\ component = "cc"
    /\ cc' = process_pending_actions(cc)
    /\ UNCHANGED <<component, now, dl, mem, ob, fn, boot, cy>>

\* list_configurable_keys, lines 154-185
ListConfigurableKeys ==
    /\ component = "cc"
    /\ cc' = [cc EXCEPT !.listed = list_configurable_keys(cc)]
    /\ UNCHANGED <<component, now, dl, mem, ob, fn, boot, cy>>

\* A restart: DecisionControlCenter(config) on a fresh configuration reads
\* the processed ids and the overrides back from their files.
RestartControl ==
    /\ component = "cc"
    /\ cc.restarts < 1
    /\ cc' = [cc EXCEPT !.config = apply_saved_overrides(cc.overrides), !.listed = {},
                        !.restarts = cc.restarts + 1]
    /\ UNCHANGED <<component, now, dl, mem, ob, fn, boot, cy>>

NextControl == SubmitAction \/ ProcessPendingActions \/ ListConfigurableKeys \/ RestartControl

SpecControl == InitControl /\ [][NextControl]_vars

(***************************************************************************)
(* Properties of the control center.                                       *)
(***************************************************************************)
ResultsFor(keys) ==
    {idx \in 1..Len(cc.results) : cc.results[idx].action_type = "set_config" /\ cc.results[idx].key \in keys}

\* C24: a set_config action whose key is live_trading, live_trading_requested
\* or live_trading_greenlight is rejected and leaves the configuration value
\* unchanged, none of these keys is listed by list_configurable_keys, and so
\* live_trading is never switched on by submitted actions.
C24_LiveTradingKeysProtected ==
    component = "cc" =>
        /\ \A idx \in ResultsFor(LiveTradingKeys) : cc.results[idx].status = "rejected"
        /\ \A key \in LiveTradingKeys : cc.config[key] = ControlConfig[key]
        /\ cc.listed \cap LiveTradingKeys = {}

\* What the code does guarantee: the keys of _BLOCKED_KEYS are rejected, keep
\* their value and are not listed.
BlockedKeysProtected ==
    component = "cc" =>
        /\ \A idx \in ResultsFor(_BLOCKED_KEYS) : cc.results[idx].status = "rejected"
        /\ cc.config["restrict_fund_transfers"] = BoolV(TRUE)
        /\ cc.listed \cap _BLOCKED_KEYS = {}

\* Every queued action is processed at most once, in the order of submission.
ProcessedOnce ==
    component = "cc" =>
        /\ \A a, b \in 1..Len(cc.results) : a < b => cc.results[a].action_id < cc.results[b].action_id
        /\ cc.processed_ids = {cc.results[idx].action_id : idx \in 1..Len(cc.results)}

(***************************************************************************)
(* First-run bootstrap (app/main.py, learning/runtime_state.py).  A local  *)
(* date is the number of days since a Monday; day % 7 is date.weekday().   *)
(* A stored date is the date itself or NoDay for the empty string: the     *)
(* store writes date.isoformat() and reads it back with fromisoformat.     *)
(***************************************************************************)
NoDay == -1

MaxDay == 16

\* The market holidays of the period: the second Monday.
Holidays == {7}

\* is_us_equity_market_day, market_calendar.py:70-78
is_us_equity_market_day(day) == day % 7 < 5 /\ day \notin Holidays

\* _next_market_day, main.py:96-100
RECURSIVE _next_market_day(_)
_next_market_day(current) ==
    IF is_us_equity_market_day(current) THEN current ELSE _next_market_day(current + 1)

\* RuntimeStateStore.ensure_first_start_date_local, runtime_state.py:95-101:
\* the store afterwards.
ensure_first_start_date_local(state, local_day) ==
    IF state.first_start_date_local # NoDay THEN state
    ELSE [state EXCEPT !.first_start_date_local = local_day]

ReachedAfter(local_day, trade_enable_day) == local_day > trade_enable_day

\* main.py:136: local_day >= trade_enable_day
Reached(local_day, trade_enable_day) == local_day >= trade_enable_day

NoContext == [enabled |-> FALSE, active |-> FALSE, start_date_local |-> NoDay,
              trade_enable_date_local |-> NoDay, complete_date_local |-> NoDay]

\* _bootstrap_context, main.py:103-150: the store afterwards and the context.
_bootstrap_context(config, state, local_day, is_market_day) ==
    LET started == ensure_first_start_date_local(state, local_day)
        start_day == started.first_start_date_local
        complete_day == started.bootstrap_complete_date_local
        trade_enable_day == _next_market_day(start_day + config.first_run_bootstrap_days)
        context == [enabled |-> TRUE, active |-> TRUE, start_date_local |-> start_day,
                    trade_enable_date_local |-> trade_enable_day, complete_date_local |-> complete_day]
    IN  IF ~config.enable_first_run_bootstrap THEN [state |-> state, context |-> NoContext]
        ELSE IF complete_day # NoDay
        THEN [state |-> started, context |-> [context EXCEPT !.active = FALSE]]
        ELSE IF is_market_day /\ Reached(local_day, trade_enable_day)
        THEN [state |-> [started EXCEPT !.bootstrap_complete_date_local = local_day],
              context |-> [context EXCEPT !.active = FALSE, !.complete_date_local = local_day]]
        ELSE [state |-> started, context |-> context]

NoCycle == [ran |-> FALSE, execute_orders |-> FALSE]
Cycle(execute_orders) == [ran |-> TRUE, execute_orders |-> execute_orders]

\* The time of day of a pass through the main loop.
Phases == {"before_premarket", "premarket", "open", "after_close", "shutdown"}

\* run, main.py:357-566: the cycle one pass of the loop runs and whether it
\* marks the day's warm-up, for the context of the pass.
LoopCycle(config, state, context, local_day, phase) ==
    LET warmup_done == state.last_warmup_date_local = local_day
        warmup == [cycle |-> Cycle(FALSE), warmup |-> TRUE]
        plain(cycle) == [cycle |-> cycle, warmup |-> FALSE]
    IN  IF config.enable_research_soak_mode THEN plain(Cycle(FALSE))
        ELSE IF context.active THEN plain(Cycle(FALSE))
        ELSE IF ~config.enable_market_hours_guard THEN plain(Cycle(~context.active))
        ELSE IF phase = "shutdown" THEN plain(NoCycle)
        ELSE IF ~is_us_equity_market_day(local_day) THEN plain(NoCycle)
        ELSE IF phase = "before_premarket" THEN plain(NoCycle)
        ELSE IF phase = "premarket" THEN (IF warmup_done THEN plain(NoCycle) ELSE warmup)
        ELSE IF ~warmup_done THEN warmup
        ELSE IF phase = "after_close" THEN plain(Cycle(FALSE))
        ELSE plain(Cycle(~context.active))

BootstrapDays == {0, 2, 5}

InitBoot ==
    /\ component = "boot"
    /\ now = 0
    /\ dl = DlIdle /\ mem = MemIdle /\ ob = ObIdle
    /\ fn = FnIdle /\ cc = CcIdle /\ cy = CyIdle
    /\ \E first_day \in 0..6, days \in BootstrapDays, enabled, soak, guard \in BOOLEAN :
          boot = [pc |-> "started",
                  config |-> [enable_first_run_bootstrap |-> enabled, first_run_bootstrap_days |-> days,
                              enable_research_soak_mode |-> soak, enable_market_hours_guard |-> guard],
                  local_day |-> first_day,
                  state |-> [first_start_date_local |-> NoDay, bootstrap_complete_date_local |-> NoDay,
                             last_warmup_date_local |-> NoDay],
                  bootstrap |-> NoContext, cycle |-> NoCycle, called |-> FALSE, qualified |-> NoDay]

\* The first market day on or after first start date + first_run_bootstrap_days.
TradeEnableDay(start_day, days) ==
    CHOOSE day \in (start_day + days)..(start_day + days + 7) :
        /\ is_us_equity_market_day(day)
        /\ \A earlier \in (start_day + days)..(day - 1) : ~is_us_equity_market_day(earlier)

\* boot.qualified records the date of the first call of _bootstrap_context
\* made on a market day on or after the trade-enable day, NoDay before it.
Qualified(local_day) ==
    LET start_day == IF boot.state.first_start_date_local = NoDay THEN local_day
                     ELSE boot.state.first_start_date_local
    IN  IF boot.qualified # NoDay THEN boot.qualified
        ELSE IF /\ is_us_equity_market_day(local_day)
                /\ local_day >= TradeEnableDay(start_day, boot.config.first_run_bootstrap_days)
        THEN local_day
        ELSE NoDay

\* One pass of the while loop of run, main.py:357-566
LoopPass ==
    /\ component = "boot"
    /\ \E phase \in Phases :
          LET called == _bootstrap_context(boot.config, boot.state, boot.local_day,
                                           is_us_equity_market_day(boot.local_day))
              ran == LoopCycle(boot.config, called.state, called.context, boot.local_day, phase)
          IN  boot' = [boot EXCEPT !.pc = "loop",
                                   !.state = IF ran.warmup
                                             THEN [called.state EXCEPT !.last_warmup_date_local = boot.local_day]
                                             ELSE called.state,
                                   !.bootstrap = called.context, !.cycle = ran.cycle,
                                   !.called = TRUE, !.qualified = Qualified(boot.local_day)]
    /\ UNCHANGED <<component, now, dl, mem, ob, fn, cc, cy>>

\* run with --once, main.py:311-355: in research soak mode the cycle runs
\* without a call of _bootstrap_context.
RunOnce ==
    /\ component = "boot"
    /\ LET called == _bootstrap_context(boot.config, boot.state, boot.local_day,
                                        is_us_equity_market_day(boot.local_day))
       IN  IF boot.config.enable_research_soak_mode
           THEN boot' = [boot EXCEPT !.pc = "once", !.bootstrap = NoContext, !.cycle = Cycle(FALSE),
                                     !.called = FALSE]
           ELSE boot' = [boot EXCEPT !.pc = "once", !.state = called.state, !.bootstrap = called.context,
                                     !.cycle = Cycle(~called.context.active),
                                     !.called = TRUE, !.qualified = Qualified(boot.local_day)]
    /\ UNCHANGED <<component, now, dl, mem, ob, fn, cc, cy>>

\* Midnight in the runtime timezone.
NextDay ==
    /\ component = "boot"
    /\ boot.local_day < MaxDay
    /\ boot' = [boot EXCEPT !.local_day = boot.local_day + 1, !.cycle = NoCycle, !.called = FALSE]
    /\ UNCHANGED <<component, now, dl, mem, ob, fn, cc, cy>>

NextBoot == LoopPass \/ RunOnce \/ NextDay

SpecBoot == InitBoot /\ [][NextBoot]_vars

(***************************************************************************)
(* Properties of the first-run bootstrap.                                  *)
(***************************************************************************)
\* The last step was a call of _bootstrap_context with the bootstrap enabled.
BootstrapCalled == component = "boot" /\ boot.called /\ boot.config.enable_first_run_bootstrap

\* C25: with first-run bootstrap enabled, _bootstrap_context reports active
\* on every call before the first call made on a market day on or after the
\* next market day following first start date + first_run_bootstrap_days;
\* that call marks the bootstrap complete with its date, it and every later
\* call report inactive, and a cycle run while the bootstrap is active has
\* execute_orders = False.
C25_BootstrapActiveUntilTradeEnableDay ==
    /\ BootstrapCalled =>
          /\ boot.bootstrap.active <=> boot.qualified = NoDay
          /\ boot.state.bootstrap_complete_date_local = boot.qualified
          /\ boot.bootstrap.trade_enable_date_local =
                TradeEnableDay(boot.state.first_start_date_local, boot.config.first_run_bootstrap_days)
    /\ (component = "boot" /\ boot.config.enable_first_run_bootstrap) =>
          boot.state.bootstrap_complete_date_local = boot.qualified
    /\ (component = "boot" /\ boot.cycle.ran /\ boot.bootstrap.active) => ~boot.cycle.execute_orders

\* The bootstrap started on a Monday with five bootstrap days, the following
\* Monday is a holiday, and the call on the Tuesday after it completed the
\* bootstrap and ran a cycle that executes orders.
C25_Witness ==
    /\ BootstrapCalled
    /\ boot.state.first_start_date_local = 0
    /\ boot.config.first_run_bootstrap_days = 5
    /\ boot.local_day = 8
    /\ boot.state.bootstrap_complete_date_local = 8
    /\ ~boot.bootstrap.active
    /\ boot.cycle = Cycle(TRUE)

(***************************************************************************)
(* Signal collection (app/engine.py, AutoTrader._collect_signals) with the *)
(* AI interpreter and the macro model disabled.  The learning stores are   *)
(* dl (decision learning) and mem (historical research memory).            *)
(***************************************************************************)
\* theme_map, in iteration order
Universe == <<"NVDA", "AMD">>

\* config.py:182, 184, 231, 232
HistoricalResearchWeight == R(25, 100)
HistoricalResearchFeedbackStrength == R(12, 100)
AiShortTermWeight == R(10, 100)
AiLongTermWeight == R(15, 100)

\* What the broker answers for a symbol: an exception, or a last price
\* (NotNum for None) and the closes of get_history.
MarketFails == [kind |-> "fails", price |-> NotNum, closes |-> <<>>]
Quote(price, closes) == [kind |-> "data", price |-> price, closes |-> closes]

\* What collect_research_items answers: an exception or the items.
ResearchFails == [kind |-> "fails", items |-> <<>>]
Found(items) == [kind |-> "items", items |-> items]

\* _blend_news_with_history, engine.py:140-143
_blend_news_with_history(current_news_score, historical_news_score, history_weight) ==
    LET weight == RMax(Zero, RMin(history_weight, One))
    IN  _clamp(RAdd(RMul(RSub(One, weight), current_news_score), RMul(weight, historical_news_score)),
               RInt(-1), One)

\* signal_feature_profile, decision_learning.py:41-57, without a macro weight
signal_feature_profile(signal, ai_short_term_weight, ai_long_term_weight) ==
    [key \in FeatureSet |->
        CASE key = "momentum_20d" -> RMul(R(45, 100), signal.momentum_20d)
          [] key = "momentum_5d" -> RMul(R(20, 100), signal.momentum_5d)
          [] key = "trend_20d" -> RMul(R(20, 100), signal.trend_20d)
          [] key = "news_score" -> RMul(R(25, 100), signal.news_score)
          [] key = "macro_score" -> Zero
          [] key = "ai_short_term" -> RMul(ai_short_term_weight, signal.ai_short_term_score)
          [] key = "ai_long_term" -> RMul(ai_long_term_weight, signal.ai_long_term_score)
          [] OTHER -> RMul(R(15, 100), MinWithOne(signal.volatility_20d))]

\* engine.py:525-531: the rows of source_profile, as a dict in key order.
RECURSIVE ProfileRows(_, _, _, _)
ProfileRows(keys, sentiment_by_source, count_by_source, source_multipliers) ==
    IF keys = {} THEN <<>>
    ELSE LET key == CHOOSE k \in keys : TRUE
             row == Row(sentiment_by_source[key], RInt(count_by_source[key]), Get(source_multipliers, key, One))
         IN  << <<key, row>> >> \o ProfileRows(keys \ {key}, sentiment_by_source, count_by_source, source_multipliers)

\* The part of the learning state a symbol's pass can change.
Learning(store, memory) ==
    [ open_calls |-> store.open_calls, market_observations |-> store.market_observations,
      source_bias |-> store.source_bias, feature_penalties |-> store.feature_penalties,
      memory |-> memory.state ]

ResolveOpenCallSkipped(store, symbol, price, t) == store

\* engine.py:417-418: the open call of the symbol is looked at before the
\* research lookup, the signal and maybe_record_call.
ResolveOpenCall(store, symbol, price, t) == maybe_resolve_call(store, symbol, price, t)

SkipsOnResearchFailure(market, research, price) ==
    market.kind = "fails" \/ ~IsNum(price) \/ research.kind = "fails"

\* engine.py:384-396: the symbol is left out when the market data lookup
\* raises or there is neither a price nor a close.
Skips(market, research, price) == market.kind = "fails" \/ ~IsNum(price)

\* engine.py:384-649, one pass of the loop over theme_map for the answers
\* the broker and the research lookup give for the symbol, in the order of
\* the code.  c holds the stores and the signals collected so far; every
\* step hands its results to the next one.

\* The end of a pass: the stores it leaves, the Signal if one was appended
\* (engine.py:649), and the row of the cycle report.
EndPass(c, symbol, market, research, t, price, store, memory_after, emitted, score) ==
    [c EXCEPT !.dl = store, !.mem = memory_after,
              !.signals = IF emitted THEN Append(c.signals, [symbol |-> symbol, score |-> score])
                          ELSE c.signals,
              !.report = Append(c.report,
                                [ symbol |-> symbol, at |-> t,
                                  market |-> IF market.kind = "fails" THEN "fails"
                                             ELSE IF ~IsNum(price) THEN "no_price" ELSE "priced",
                                  research |-> research.kind,
                                  signal |-> emitted,
                                  before |-> Learning(c.dl, c.mem),
                                  after |-> Learning(store, memory_after) ])]

\* engine.py:641-649: maybe_record_call and signals.append.
RecordAndAppend(c, symbol, market, research, t, price, predicted, observed, signal, feature_profile, source_profile) ==
    EndPass(c, symbol, market, research, t, price,
            maybe_record_call(observed, signal, feature_profile, source_profile, EntryThreshold, OptionThreshold, t),
            predicted, TRUE, signal.score)

\* engine.py:621-640: the learned adjustment of the score.
AdjustSignal(c, symbol, market, research, t, price, predicted, observed, computed, feature_profile, source_profile) ==
    RecordAndAppend(c, symbol, market, research, t, price, predicted, observed,
                    [computed EXCEPT !.score = RAdd(computed.score, adjustment_for(observed, feature_profile))],
                    feature_profile, source_profile)

\* engine.py:577 and 614-619: no Signal without a positive price and 25
\* closes; otherwise its feature profile.
WithSignal(c, symbol, market, research, t, price, predicted, observed, computed, source_profile) ==
    IF computed.none
    THEN EndPass(c, symbol, market, research, t, price, observed, predicted, FALSE, Zero)
    ELSE AdjustSignal(c, symbol, market, research, t, price, predicted, observed, computed,
                      signal_feature_profile(computed, AiShortTermWeight, AiLongTermWeight), source_profile)

\* engine.py:520-529, 538-547 and 566-576: the historical memory, the
\* blended news score, the market observation and compute_signal_with_ai.
WithSentiment(c, symbol, market, research, t, price, fed, resolved, news_score, source_profile) ==
    LET memory == c.config.historical_research_memory
        updated == IF memory THEN update(fed, symbol, news_score, t) ELSE fed
    IN  WithSignal(c, symbol, market, research, t, price,
                   IF memory THEN record_prediction(updated, symbol, news_score, price, t) ELSE fed,
                   IF c.dl.cfg.enable_source_priority_learning /\ c.config.source_market_reaction_learning
                   THEN update_from_market_reaction(resolved, symbol, price, source_profile, t)
                   ELSE resolved,
                   compute_signal_with_ai(symbol, price, market.closes,
                                          IF memory
                                          THEN _blend_news_with_history(news_score, updated.result.ret,
                                                                        HistoricalResearchWeight)
                                          ELSE news_score,
                                          Zero, Zero, Zero, AiShortTermWeight, AiLongTermWeight),
                   source_profile)

\* engine.py:530-536: the source profile, from the sentiment of the research
\* items and the learned source multipliers.
WithResearch(c, symbol, market, research, t, price, fed, resolved, source_multipliers, sentiment) ==
    WithSentiment(c, symbol, market, research, t, price, fed, resolved, sentiment[1],
                  Dict(ProfileRows(DOMAIN sentiment[2], sentiment[2], sentiment[3], source_multipliers)))

\* engine.py:434-467 and 514-518: a failed research lookup leaves
\* research_items = []; source_weighted_sentiment of the items.
WithCalls(c, symbol, market, research, t, price, fed, resolved, source_multipliers) ==
    WithResearch(c, symbol, market, research, t, price, fed, resolved, source_multipliers,
                 source_weighted_sentiment(research.items,
                                           IF c.dl.cfg.enable_source_priority_learning
                                           THEN Dict(source_multipliers) ELSE NotDict))

\* engine.py:503-512: the learned multipliers of the source types.
WithPrice(c, symbol, market, research, t, price, fed, resolved) ==
    WithCalls(c, symbol, market, research, t, price, fed, resolved,
              IF c.dl.cfg.enable_source_priority_learning
              THEN [key \in SourceTypes(research.items) |-> source_multiplier_for(resolved, key)]
              ELSE EmptyDict)

\* engine.py:384-425: the market data of the symbol, the price feedback of
\* the historical memory and the resolution of the symbol's open call.
WithMarket(c, symbol, market, research, t, price) ==
    IF Skips(market, research, price)
    THEN EndPass(c, symbol, market, research, t, price, c.dl, c.mem, FALSE, Zero)
    ELSE WithPrice(c, symbol, market, research, t, price,
                   IF c.config.historical_research_memory
                   THEN apply_price_feedback(c.mem, symbol, price, HistoricalResearchFeedbackStrength, t)
                   ELSE c.mem,
                   ResolveOpenCall(c.dl, symbol, price, t))

\* engine.py:384-649
CollectSymbol(c, symbol, market, research, t) ==
    WithMarket(c, symbol, market, research, t,
               IF ~IsNum(market.price) /\ Len(market.closes) > 0
               THEN market.closes[Len(market.closes)] ELSE market.price)

RECURSIVE CollectFrom(_, _, _, _)
CollectFrom(c, idx, answers, t) ==
    IF idx > Len(Universe) THEN c
    ELSE CollectFrom(CollectSymbol(c, Universe[idx], answers[idx][1], answers[idx][2], t), idx + 1, answers, t)

\* engine.py:651: signals.sort(key=score, reverse=True), a stable sort.
RECURSIVE SortedByScore(_, _)
SortedByScore(signals, i) ==
    IF i = 0 THEN <<>>
    ELSE LET rest == SortedByScore(signals, i - 1)
             pos == Cardinality({j \in 1..Len(rest) : RLe(signals[i].score, rest[j].score)})
         IN  SubSeq(rest, 1, pos) \o <<signals[i]>> \o SubSeq(rest, pos + 1, Len(rest))

\* engine.py:651: signals.sort(key=score, reverse=True) at the end of the loop.
SortSignals(collected) ==
    [collected EXCEPT !.signals = SortedByScore(collected.signals, Len(collected.signals))]

\* _collect_signals, engine.py:363-670
_collect_signals(c, answers, t) ==
    SortSignals(CollectFrom([c EXCEPT !.signals = <<>>, !.report = <<>>], 1, answers, t))

(***************************************************************************)
(* Cycles of signal collection as a state machine.                         *)
(***************************************************************************)
MaxCycleTime == 1
MaxCycles == 2

MarketAnswers ==
    { MarketFails, Quote(NotNum, <<>>), Quote(NotNum, Flat(10, 120)),
      Quote(RInt(100), Swinging(30)) }

ResearchAnswers == {ResearchFails, Found(<<NewsItem("news", TitleUp)>>)}

\* The answers of one cycle: for every symbol of the universe what the broker
\* and the research lookup give.
Answers(market_answers, research_answers) == [1..Len(Universe) -> market_answers \X research_answers]

\* The cycles are counted where the historical memory or the reaction
\* learning is on: both blend a new value into the stored one every cycle.
Counted(config) == config.historical_research_memory \/ config.source_market_reaction_learning

CycleStart(config, store, market_answers, research_answers) ==
    /\ component = "cycle"
    /\ now = 0
    /\ dl = store
    /\ mem = MemIdle
    /\ ob = ObIdle /\ fn = FnIdle /\ cc = CcIdle /\ boot = BootIdle
    /\ cy = [ pc |-> "started", config |-> config, signals |-> <<>>, report |-> <<>>, cycles |-> 0,
              market_answers |-> market_answers, research_answers |-> research_answers ]

InitCycle ==
    CycleStart([historical_research_memory |-> TRUE, source_market_reaction_learning |-> TRUE], DlIdle,
               MarketAnswers, ResearchAnswers)

\* run_cycle calls _collect_signals, engine.py:363-670
\* The stores, the signals and the report a cycle leaves behind.
Collected(collected) ==
    /\ dl' = collected.dl
    /\ mem' = collected.mem
    /\ cy' = [cy EXCEPT !.pc = "collected", !.signals = collected.signals,
                        !.report = collected.report,
                        !.cycles = IF Counted(cy.config) THEN cy.cycles + 1 ELSE 0]

CollectWith(answers) ==
    /\ component = "cycle"
    /\ Counted(cy.config) => cy.cycles < MaxCycles
    /\ Collected(_collect_signals([dl |-> dl, mem |-> mem, config |-> cy.config,
                                   signals |-> <<>>, report |-> <<>>], answers, now))
    /\ UNCHANGED <<component, now, ob, fn, cc, boot>>

CollectSignals == \E answers \in Answers(cy.market_answers, cy.research_answers) : CollectWith(answers)

\* An hour passes between two cycles.
CycleTick ==
    /\ component = "cycle"
    /\ now < MaxCycleTime
    /\ now' = now + 1
    /\ UNCHANGED <<component, dl, mem, ob, fn, cc, boot, cy>>

NextCycle == CollectSignals \/ CycleTick

SpecCycle == InitCycle /\ [][NextCycle]_vars

\* The last cycle ran in the current hour and the symbol at idx of the
\* universe received a price in it.
PricedNow(idx) ==
    /\ component = "cycle" /\ cy.pc = "collected"
    /\ cy.report[idx].at = now
    /\ cy.report[idx].market = "priced"

\* The trader without historical memory and market-reaction learning, on a
\* new store or on one that loads open calls from an edited state file, with
\* a research lookup that answers and a broker that fails, gives a price with
\* a full history, or gives a short history only.
InitCycleFair ==
    \E store \in {DlIdle, NewStore(ArgsTest, FileEdited, <<>>, 1)} :
        CycleStart([historical_research_memory |-> FALSE, source_market_reaction_learning |-> FALSE], store,
                   {MarketFails, Quote(NotNum, Flat(10, 120)), Quote(RInt(100), Swinging(30))},
                   {Found(<<NewsItem("news", TitleUp)>>)})

\* run() keeps calling run_cycle: the clock advances between the cycles up
\* to MaxCycleTime, and for every symbol there is again and again a cycle in
\* which it receives a price.
SpecCycleFair ==
    /\ InitCycleFair
    /\ [][NextCycle]_vars
    /\ WF_vars(CycleTick)
    /\ \A idx \in 1..Len(Universe) : []<>PricedNow(idx)

(***************************************************************************)
(* Properties of signal collection.                                        *)
(***************************************************************************)
Passes == IF component = "cycle" THEN 1..Len(cy.report) ELSE {}

LearningUntouched(pass) == pass.after = pass.before

OpenAt(symbol, created_at) ==
    /\ component = "cycle"
    /\ symbol \in DOMAIN dl.open_calls
    /\ dl.open_calls[symbol].created_at = created_at

\* The last cycle gave the symbol a price.
PricedPass(symbol) ==
    \E idx \in Passes : cy.report[idx].symbol = symbol /\ cy.report[idx].market = "priced"

\* A cycle that gives a price to a symbol whose open call has no readable
\* timestamp or has reached the evaluation horizon ends without that call.
ElapsedCallRemovedByCycle ==
    \A symbol \in Range(Universe) :
        ( /\ now' = now
          /\ symbol \in DOMAIN dl.open_calls
          /\ dl.open_calls[symbol].created_at = NoTime \/ Elapsed(dl.open_calls[symbol].created_at)
          /\ PricedPass(symbol)' )
        => \/ symbol \notin DOMAIN dl'.open_calls
           \/ dl'.open_calls[symbol].id # dl.open_calls[symbol].id

\* C30: while cycles keep running and the symbol of an open call keeps
\* receiving a price, the first cycle at or after the evaluation horizon
\* removes the call from the ledger (maybe_resolve_call runs before
\* maybe_record_call), so every open call whose horizon ends within
\* MaxCycleTime is eventually gone and the symbol can open a new one.
C30_OpenCallEventuallyRemoved ==
    /\ [][ElapsedCallRemovedByCycle]_vars
    /\ \A symbol \in Range(Universe) :
          \A created_at \in {NoTime} \cup (0..MaxCycleTime) :
              ( /\ OpenAt(symbol, created_at)
                /\ created_at = NoTime \/ created_at + dl.cfg.evaluation_horizon <= MaxCycleTime )
              ~> ~OpenAt(symbol, created_at)

\* The call NVDA opened in the first hour was resolved by the pass of a later
\* cycle, and the same pass opened the next call for NVDA.
C30_Witness ==
    /\ component = "cycle" /\ cy.pc = "collected"
    /\ ~Counted(cy.config)
    /\ now >= 1
    /\ "NVDA" \in DOMAIN cy.report[1].before.open_calls
    /\ cy.report[1].before.open_calls["NVDA"].created_at = 0
    /\ "NVDA" \in DOMAIN cy.report[1].after.open_calls
    /\ cy.report[1].after.open_calls["NVDA"].created_at = now
    /\ cy.report[1].after.open_calls["NVDA"].id # cy.report[1].before.open_calls["NVDA"].id

====
